---- MODULE Spec2Model ----
(***************************************************************************)
(* Seva-app-backend: the attendance state machine (check-in, check-out,    *)
(* bulk shift closeout), the assignment CRUD handlers and the roster       *)
(* importer, modelled statement by statement over the relational store.    *)
(* Every SQL statement a handler issues on the pool is one atomic step;    *)
(* a handler is the sequence of its statements, so that two requests may   *)
(* interleave exactly where the Go handlers may.                           *)
(*                                                                         *)
(* The store is the schema the handlers address: volunteer_assignments is  *)
(* unique on (event_id, committee_id, volunteer_id) and cascades to        *)
(* attendance; attendance has no uniqueness beyond its id; volunteers has  *)
(* the unique keys volunteers_email_key and volunteers_college_id_key the  *)
(* handlers name. Row ids stand for fresh values of their sequences.       *)
(***************************************************************************)
EXTENDS Integers, Sequences, FiniteSets, TLC

\* ------------------------------------------------------------------ bounds
MaxTime == 2
TicksPerDay == 2
MaxAtt == 2
MaxAsg == 2
MaxVol == 4
MaxRuns == 2
MaxSessions == 3
RefreshTTL == 1

\* ------------------------------------------------- program constants
NULL == -1
BadTime == -2
StatusOK == 200
StatusCreated == 201
StatusNoContent == 204
StatusBadRequest == 400
StatusUnauthorized == 401
StatusForbidden == 403
StatusNotFound == 404
StatusConflict == 409
StatusInternalServerError == 500

UserRoleAdmin == "admin"
UserRoleFaculty == "faculty"
UserRoleVolunteer == "volunteer"

\* the role sets main() hands to RequireRole
requireAdmin == {UserRoleAdmin}
requireFaculty == {UserRoleFaculty, UserRoleAdmin}
requireVolunteer == {UserRoleVolunteer, UserRoleAdmin}

\* a guard that lets every authenticated caller pass
AnyAuthenticated(allowed, role) == TRUE

\* RequireRole: the request passes iff the role of its claims is allowed
RequireRole(allowed, role) == role \in allowed

\* ------------------------------------------------------------ value sets
Procs == {1, 2}
Times == 0..MaxTime
Committees == {1, 2}

\* text is a sequence of one-character strings; a SQL NULL text column is NullStr
NullStr == <<"NULL">>
Morning == <<"M", "o">>
morning == <<"m", "o">>
Evening == <<"E", "v">>
\* the shift query parameter; "%" and "_" are characters a caller may send
ShiftFilters == {<<"m", "O">>, <<"v">>, <<"%">>}

\* ---------------------------------------------------------- SQL functions
\* lower() on the characters of the model's alphabet
Lower(ch) ==
    CASE ch = "M" -> "m"
      [] ch = "O" -> "o"
      [] ch = "E" -> "e"
      [] ch = "V" -> "v"
      [] OTHER -> ch

\* DATE(timestamptz): the calendar day of an instant
\* a DATE() that keeps the time of day
DateWithTime(t) == t

DATE(t) == t \div TicksPerDay

\* text LIKE pattern, both already case-folded by ILIKE: "%" matches any run
\* of characters, "_" any single character
RECURSIVE LikeMatch(_, _)
LikeMatch(pat, s) ==
    IF pat = <<>> THEN s = <<>>
    ELSE IF Head(pat) = "%"
         THEN LikeMatch(Tail(pat), s) \/ (s # <<>> /\ LikeMatch(pat, Tail(s)))
    ELSE IF s = <<>> THEN FALSE
    ELSE (Head(pat) = "_" \/ Lower(Head(pat)) = Lower(Head(s)))
         /\ LikeMatch(Tail(pat), Tail(s))

\* va.shift ILIKE $3 with $3 = "%" + filters.Shift.String + "%"; NULL never matches
ShiftILike(shift, filter) ==
    /\ shift # NullStr
    /\ LikeMatch(<<"%">> \o filter \o <<"%">>, shift)

\* -------------------------------------------------------------------- state
VARIABLES
    volunteers,     \* table volunteers: set of rows
    faculty,        \* table faculty: set of rows
    assignments,    \* table volunteer_assignments: set of rows
    attendance,     \* table attendance: set of rows
    nextAsgId,      \* bigserial of volunteer_assignments.id
    nextAttId,      \* bigserial of attendance.id
    nextVolId,      \* id sequence of volunteers
    req,            \* per connection: the request in flight, then its response
    imp,            \* per connection: the importer's locals and open transaction
    upload,         \* the roster file an admin holds, its target and its committed runs
    sessions,       \* table auth_sessions: set of rows
    announcements   \* table announcements: set of rows

vars == <<volunteers, faculty, assignments, attendance, nextAsgId, nextAttId,
          nextVolId, req, imp, upload, sessions, announcements>>

store == <<volunteers, faculty, assignments, attendance, nextAsgId, nextAttId, nextVolId>>

\* the query string of a GET without any parameter: NULL is an absent id, date,
\* limit or offset, <<>> an absent shift
NoQuery ==
    [ev |-> NULL, com |-> NULL, vol |-> NULL, shift |-> <<>>, date |-> NULL,
     from |-> NULL, to |-> NULL, limit |-> NULL, offset |-> NULL]

\* a connection: the claims (sub, role) and locals of the handler that runs,
\* then, at pc = "done", the response it sent: the status, the id a 201
\* carries, the count of the closeout message, the importer's counters and
\* error list, the query q of a projection and the rows of its JSON array, the
\* refresh token a /auth/refresh presents and the one its answer carries, the
\* event and committee ids the announcement list has read for its volunteer.
\* sel and failedIds record, for the closeout sweep, the ids it selected and those whose UPDATE the store failed
Idle ==
    [op |-> "idle", pc |-> "idle", sub |-> 0, role |-> "none", aid |-> 0, att |-> 0,
     ts |-> 0, ev |-> 0, com |-> 0, shift |-> <<>>, ids |-> {}, closed |-> 0,
     sel |-> {}, failedIds |-> {},
     status |-> 0, id |-> 0, count |-> NULL,
     created_volunteers |-> 0, created_assignments |-> 0, updated_assignments |-> 0,
     errors |-> <<>>, q |-> NoQuery, rows |-> <<>>, token |-> 0, refresh_token |-> 0,
     events |-> {}, committees |-> {}, active_only |-> FALSE]

\* the handler of `op` has answered with `status`
Response(op, status) == [Idle EXCEPT !.op = op, !.pc = "done", !.status = status]

\* the handler of request r has answered with `status`; the connection keeps
\* the request it answered
Answer(r, status) == [r EXCEPT !.pc = "done", !.status = status]

\* the response is read; the connection is free for the next request
Finish(p) ==
    /\ req[p].pc = "done"
    /\ req' = [req EXCEPT ![p] = Idle]
    /\ UNCHANGED <<store, imp>>


AssignmentIds == {a.id : a \in assignments}
AttendanceIds == {r.id : r \in attendance}

\* the lookup that also finds the closed rows of the day
AttendedOnDay(aid, ts) ==
    {r \in attendance : r.assignment_id = aid /\ DATE(r.check_in_time) = DATE(ts)}

\* the lookup comparing instants instead of calendar days
OpenOnDayExactInstant(aid, ts) ==
    {r \in attendance : /\ r.assignment_id = aid
                        /\ r.check_out_time = NULL
                        /\ r.check_in_time = ts}

\* SELECT id FROM attendance WHERE assignment_id=$1 AND check_out_time IS NULL
\*   AND DATE(check_in_time) = DATE($2)
OpenOnDay(aid, ts) ==
    {r \in attendance : /\ r.assignment_id = aid
                        /\ r.check_out_time = NULL
                        /\ DATE(r.check_in_time) = DATE(ts)}

\* requests in flight that will still draw an attendance id
PendingCheckIns == Cardinality({q \in Procs : req[q].op = "CheckIn" /\ req[q].pc # "done"})

\* ------------------------------------------------- attendance.go: CheckIn
\* middleware, body validation and SELECT EXISTS(... volunteer_assignments WHERE id=$1)
CheckInBegin(p, sub, role, aid, ts) ==
    /\ req[p].pc = "idle"
    /\ nextAttId + PendingCheckIns <= MaxAtt
    /\ UNCHANGED <<store, imp>>
    /\ LET r == [Idle EXCEPT !.op = "CheckIn", !.pc = "ci_lookup",
                              !.sub = sub, !.role = role, !.aid = aid, !.ts = ts]
       IN  req' = [req EXCEPT ![p] =
                IF ~RequireRole(requireVolunteer, role)
                THEN Response("CheckIn", StatusForbidden)
                ELSE IF aid <= 0 \/ aid \notin AssignmentIds
                THEN [Response("CheckIn", StatusBadRequest) EXCEPT !.aid = aid]
                ELSE r]

\* the open-attendance lookup: a row found is the 409
CheckInLookup(p) ==
    /\ req[p].pc = "ci_lookup"
    /\ UNCHANGED <<store, imp>>
    /\ req' = [req EXCEPT ![p] =
            IF OpenOnDay(req[p].aid, req[p].ts) # {}
            THEN Answer(req[p], StatusConflict)
            ELSE [req[p] EXCEPT !.pc = "ci_insert"]]

\* INSERT INTO attendance(assignment_id, check_in_time, lat, lng) RETURNING id;
\* the foreign key rejects the row when the assignment is gone (the handler
\* returns the error, a 500)
\* the INSERT as it would run on a table without the foreign key on assignment_id
InsertWithoutForeignKey(p) ==
    /\ req[p].pc = "ci_insert"
    /\ UNCHANGED <<volunteers, faculty, assignments, nextAsgId, nextVolId, imp>>
    /\ attendance' = attendance \cup
            {[id |-> nextAttId, assignment_id |-> req[p].aid,
              check_in_time |-> req[p].ts, check_out_time |-> NULL]}
    /\ nextAttId' = nextAttId + 1
    /\ req' = [req EXCEPT ![p] = [Answer(req[p], StatusCreated) EXCEPT !.id = nextAttId]]

CheckInInsert(p) ==
    /\ req[p].pc = "ci_insert"
    /\ UNCHANGED <<volunteers, faculty, assignments, nextAsgId, nextVolId, imp>>
    /\ IF req[p].aid \notin AssignmentIds
       THEN /\ req' = [req EXCEPT ![p] = Answer(req[p], StatusInternalServerError)]
            /\ UNCHANGED <<attendance, nextAttId>>
       ELSE /\ attendance' = attendance \cup
                    {[id |-> nextAttId, assignment_id |-> req[p].aid,
                      check_in_time |-> req[p].ts, check_out_time |-> NULL]}
            /\ nextAttId' = nextAttId + 1
            /\ req' = [req EXCEPT ![p] =
                    [Answer(req[p], StatusCreated) EXCEPT !.id = nextAttId]]

\* ------------------------------------------------ attendance.go: CheckOut
\* the rows of that id without the check_out_time IS NULL condition
RowsOfId(id) == {r \in attendance : r.id = id}

\* the rows UPDATE attendance SET check_out_time=.. WHERE id=$1 AND check_out_time IS NULL hits
OpenRows(id) == {r \in attendance : r.id = id /\ r.check_out_time = NULL}

\* the table after that UPDATE
UpdateCheckOut(id, ts) ==
    {IF r \in OpenRows(id) THEN [r EXCEPT !.check_out_time = ts] ELSE r : r \in attendance}

\* middleware, body validation and SELECT EXISTS(... WHERE id = $1 AND check_out_time IS NULL)
CheckOutBegin(p, sub, role, att, ts) ==
    /\ req[p].pc = "idle"
    /\ UNCHANGED <<store, imp>>
    /\ LET r == [Idle EXCEPT !.op = "CheckOut",
                              !.pc = IF OpenRows(att) # {} THEN "co_update" ELSE "co_closed",
                              !.sub = sub, !.role = role, !.att = att, !.ts = ts]
       IN  req' = [req EXCEPT ![p] =
                IF ~RequireRole(requireVolunteer, role)
                THEN Response("CheckOut", StatusForbidden)
                ELSE IF att <= 0
                THEN Response("CheckOut", StatusBadRequest)
                ELSE r]

\* the answer that does not tell a closed row from a missing one
AlwaysNotFound(att) == StatusNotFound

\* the answer when attendanceExists is false: SELECT check_out_time FROM attendance
\* WHERE id=$1 tells "already checked out" (409) from "not found" (404)
ClosedOrNotFound(att) ==
    IF \E r \in attendance : r.id = att /\ r.check_out_time # NULL
    THEN StatusConflict
    ELSE StatusNotFound

CheckOutClosed(p) ==
    /\ req[p].pc = "co_closed"
    /\ UNCHANGED <<store, imp>>
    /\ req' = [req EXCEPT ![p] = Answer(req[p], ClosedOrNotFound(req[p].att))]

\* the UPDATE; RowsAffected() == 0 is answered 404
CheckOutUpdate(p) ==
    /\ req[p].pc = "co_update"
    /\ UNCHANGED <<volunteers, faculty, assignments, nextAsgId, nextAttId, nextVolId, imp>>
    /\ attendance' = UpdateCheckOut(req[p].att, req[p].ts)
    /\ req' = [req EXCEPT ![p] =
            IF OpenRows(req[p].att) = {}
            THEN Answer(req[p], StatusNotFound)
            ELSE Answer(req[p], StatusNoContent)]

\* ------------------------------------------- attendance.go: CheckoutShift
\* SELECT a.id FROM attendance a JOIN volunteer_assignments va ON va.id = a.assignment_id
\* WHERE a.check_out_time IS NULL AND va.event_id = $1 AND va.committee_id = $2
\*   AND va.shift ILIKE $3
ActiveInShift(ev, com, shift) ==
    {r.id : r \in {x \in attendance :
        /\ x.check_out_time = NULL
        /\ \E va \in assignments : /\ va.id = x.assignment_id
                                   /\ va.event_id = ev
                                   /\ va.committee_id = com
                                   /\ ShiftILike(va.shift, shift)}}

\* the counter counting every UPDATE that did not fail
CountEveryUpdate(checkedOut, id) == checkedOut + 1

\* the sweep's counter after one UPDATE that did not fail: checkedOut += cmd.RowsAffected()
CheckedOutAfter(checkedOut, id) == checkedOut + Cardinality(OpenRows(id))

\* middleware, buildShiftCheckinFilters, the required-filter check, now := time.Now()
\* and the SELECT of the active ids; ev or com NULL and shift <<>> are absent
\* parameters. With no id selected the answer is a message without a count
CheckoutShiftBegin(p, role, ev, com, shift, now) ==
    /\ req[p].pc = "idle"
    /\ UNCHANGED <<store, imp>>
    /\ req' = [req EXCEPT ![p] =
            IF ~RequireRole(requireFaculty, role)
            THEN Response("CheckoutShift", StatusForbidden)
            ELSE IF ev = NULL \/ com = NULL \/ shift = <<>>
            THEN Response("CheckoutShift", StatusBadRequest)
            ELSE IF ActiveInShift(ev, com, shift) = {}
            THEN Response("CheckoutShift", StatusOK)
            ELSE [Idle EXCEPT !.op = "CheckoutShift", !.pc = "cs_update",
                              !.role = role, !.ev = ev, !.com = com,
                              !.shift = shift, !.ts = now,
                              !.ids = ActiveInShift(ev, com, shift),
                              !.sel = ActiveInShift(ev, com, shift)]]

\* one turn of the loop over attendanceIDs: the UPDATE of one id, which the
\* store may fail (logged, continue)
CheckoutShiftUpdate(p, id, storeFails) ==
    /\ req[p].pc = "cs_update"
    /\ id \in req[p].ids
    /\ UNCHANGED <<volunteers, faculty, assignments, nextAsgId, nextAttId, nextVolId, imp>>
    /\ IF storeFails
       THEN /\ UNCHANGED attendance
            /\ req' = [req EXCEPT ![p].ids = @ \ {id},
                                  ![p].failedIds = @ \cup {id}]
       ELSE /\ attendance' = UpdateCheckOut(id, req[p].ts)
            /\ req' = [req EXCEPT ![p].ids = @ \ {id},
                                  ![p].closed = CheckedOutAfter(@, id)]

\* the loop is over: 200 with the count in the message
CheckoutShiftRespond(p) ==
    /\ req[p].pc = "cs_update"
    /\ req[p].ids = {}
    /\ UNCHANGED <<store, imp>>
    /\ req' = [req EXCEPT ![p] =
            [Answer(req[p], StatusOK) EXCEPT !.count = req[p].closed]]

\* ---------------------------------------- attendance.go: the projections
\* a numeric query parameter that strconv.ParseInt rejects
BadParam == -3

clampInt(v, lo, hi) == IF v < lo THEN lo ELSE IF v > hi THEN hi ELSE v

maxInt(a, b) == IF a > b THEN a ELSE b

\* c.QueryInt(key, def): the default for an absent parameter
QueryInt(v, def) == IF v = NULL THEN def ELSE v

\* an id filter of the builders: Valid only when the parameter is present and parses
IdFilter(v) == IF v = BadParam THEN NULL ELSE v

\* filters.Date of buildShiftCheckinFilters and AttendanceCheckDate of
\* buildAssignmentStatusFilters: the day given, else (absent or unparsable)
\* time.Now().Truncate(24 * time.Hour)
DateOrToday(date, now) == IF date = NULL \/ date = BadTime THEN DATE(now) ELSE date

\* AssignmentStartDate / AssignmentEndDate: Valid only when present and parsed
DateFilter(date) == IF date = BadTime THEN NULL ELSE date

\* the optional conditions on va the builders append
MatchesEvent(va, ev) == IdFilter(ev) = NULL \/ va.event_id = ev
MatchesCommittee(va, com) == IdFilter(com) = NULL \/ va.committee_id = com
MatchesVolunteer(va, vol) == IdFilter(vol) = NULL \/ va.volunteer_id = vol
MatchesShift(va, shift) == shift = <<>> \/ ShiftILike(va.shift, shift)

\* DATE(va.start_time) compared with a day; a NULL start_time satisfies no comparison
StartsOn(va, day) == va.start_time # NULL /\ DATE(va.start_time) = day
StartsFrom(va, day) == DateFilter(day) = NULL \/ (va.start_time # NULL /\ DATE(va.start_time) >= day)
StartsUntil(va, day) == DateFilter(day) = NULL \/ (va.start_time # NULL /\ DATE(va.start_time) <= day)

\* volunteer_assignments va JOIN volunteers v ON v.id = va.volunteer_id (the
\* events and committees an assignment references exist): the columns the
\* projections select
JoinVolunteers ==
    {[id |-> x[1].id, event_id |-> x[1].event_id, committee_id |-> x[1].committee_id,
      volunteer_id |-> x[1].volunteer_id, shift |-> x[1].shift,
      start_time |-> x[1].start_time, volunteer_name |-> x[2].name] :
        x \in {y \in assignments \X volunteers : y[2].id = y[1].volunteer_id}}

\* attendance a JOIN volunteer_assignments va ON va.id = a.assignment_id JOIN volunteers v
JoinAttendance ==
    {[id |-> x[1].id, assignment_id |-> x[1].assignment_id,
      check_in_time |-> x[1].check_in_time, check_out_time |-> x[1].check_out_time,
      shift |-> x[2].shift, volunteer_id |-> x[2].volunteer_id,
      volunteer_name |-> x[2].volunteer_name, committee_id |-> x[2].committee_id,
      event_id |-> x[2].event_id] :
        x \in {y \in attendance \X JoinVolunteers : y[2].id = y[1].assignment_id}}

\* the collation of the names the store holds
Collation == <<"", "a", "b", "n">>
NameRank(n) == CHOOSE i \in 1..Len(Collation) : Collation[i] = n

\* ascending order puts NULL last
NullsLast(t) == IF t = NULL THEN MaxTime + 1 ELSE t

RECURSIVE LexLess(_, _)
LexLess(a, b) ==
    /\ a # <<>>
    /\ \/ Head(a) < Head(b)
       \/ Head(a) = Head(b) /\ LexLess(Tail(a), Tail(b))

\* ORDER BY va.event_id, va.committee_id, va.start_time, v.name ASC
ByAssignment(r) ==
    <<r.event_id, r.committee_id, NullsLast(r.start_time), NameRank(r.volunteer_name)>>

\* ORDER BY a.check_in_time DESC
ByCheckInDesc(r) == <<0 - r.check_in_time>>

\* the sequences an ORDER BY may return for the rows S, Key giving each row its
\* sort key: rows of equal key come in any order
Ordered(S, Key) ==
    {s \in [1..Cardinality(S) -> S] :
        \A i, j \in 1..Cardinality(S) :
            i < j => s[i] # s[j] /\ ~LexLess(Key[s[j]], Key[s[i]])}

\* LIMIT $n OFFSET $n+1 with the clamped parameters
Page(s, limit, offset) ==
    LET lim == clampInt(QueryInt(limit, 100), 1, 500)
        off == maxInt(QueryInt(offset, 0), 0)
    IN  SubSeq(s, off + 1, IF off + lim > Len(s) THEN Len(s) ELSE off + lim)

\* the subquery without the check_out_time IS NULL condition
AttendedOn(aid, day) ==
    {r.id : r \in {x \in attendance : /\ x.assignment_id = aid
                                      /\ DATE(x.check_in_time) = day}}

\* the subquery of assignments-status: SELECT att.id FROM attendance att WHERE
\* att.assignment_id = va.id AND DATE(att.check_in_time) = $d AND att.check_out_time IS NULL
ActiveOn(aid, day) ==
    {r.id : r \in {x \in attendance : /\ x.assignment_id = aid
                                      /\ DATE(x.check_in_time) = day
                                      /\ x.check_out_time = NULL}}

\* the row of assignments-status for va when the subquery's LIMIT 1 picked id
\* (NULL when it selected no row); IsCheckedIn = activeAttendanceID.Valid
StatusRow(va, id) ==
    [id |-> va.id, event_id |-> va.event_id, committee_id |-> va.committee_id,
     volunteer_id |-> va.volunteer_id, shift |-> va.shift, start_time |-> va.start_time,
     volunteer_name |-> va.volunteer_name,
     active_attendance_id |-> id, is_checked_in |-> (id # NULL)]

\* the results of the assignments-status query: one row per matching
\* assignment, each with one of the ids its subquery may pick
StatusRows(q, now) ==
    LET day == DateOrToday(q.date, now)
        matching == {va \in JoinVolunteers :
                        /\ MatchesEvent(va, q.ev) /\ MatchesCommittee(va, q.com)
                        /\ MatchesVolunteer(va, q.vol) /\ MatchesShift(va, q.shift)
                        /\ StartsFrom(va, q.from) /\ StartsUntil(va, q.to)}
        picks(va) == IF ActiveOn(va.id, day) = {} THEN {NULL} ELSE ActiveOn(va.id, day)
        candidates == UNION {{StatusRow(va, id) : id \in picks(va)} : va \in matching}
    IN  {S \in SUBSET candidates :
            \A va \in matching : Cardinality({r \in S : r.id = va.id}) = 1}

\* the subquery restricted to the rows still open
StillOpenOn(day) ==
    {r.assignment_id : r \in {x \in attendance : /\ DATE(x.check_in_time) = day
                                                 /\ x.check_out_time = NULL}}

\* SELECT DISTINCT assignment_id FROM attendance WHERE DATE(check_in_time) = $d
CheckedInOn(day) ==
    {r.assignment_id : r \in {x \in attendance : DATE(x.check_in_time) = day}}

\* the rows of shifts-without-checkin: DATE(va.start_time) = $d AND va.id NOT IN
\* that subquery
PendingShiftRows(q, now) ==
    LET day == DateOrToday(q.date, now)
    IN  {va \in JoinVolunteers :
            /\ MatchesEvent(va, q.ev) /\ MatchesCommittee(va, q.com)
            /\ MatchesShift(va, q.shift)
            /\ StartsOn(va, day)
            /\ va.id \notin CheckedInOn(day)}

\* the rows of active-in-shift: a.check_out_time IS NULL, the optional filters
\* and DATE(a.check_in_time) = $d
ActiveShiftRows(q, now) ==
    {r \in JoinAttendance :
        /\ r.check_out_time = NULL
        /\ MatchesEvent(r, q.ev) /\ MatchesCommittee(r, q.com) /\ MatchesShift(r, q.shift)
        /\ DATE(r.check_in_time) = DateOrToday(q.date, now)}

\* the rows of active-in-committee: a.check_out_time IS NULL and the two id filters
ActiveCommitteeRows(q) ==
    {r \in JoinAttendance :
        /\ r.check_out_time = NULL
        /\ (q.ev = NULL \/ r.event_id = q.ev)
        /\ r.committee_id = q.com}

\* a projection has answered the query q with the JSON array rows
Listed(op, role, q, now, rows) ==
    [Answer([Idle EXCEPT !.op = op, !.role = role, !.q = q, !.ts = now], StatusOK)
        EXCEPT !.rows = rows]

\* GET /attendance/assignments-status: middleware, filters, the query, the array
ListAssignmentsWithCheckinStatus(p, role, q, now) ==
    /\ req[p].pc = "idle"
    /\ UNCHANGED <<store, imp>>
    /\ IF ~RequireRole(requireFaculty, role)
       THEN req' = [req EXCEPT ![p] =
                Response("ListAssignmentsWithCheckinStatus", StatusForbidden)]
       ELSE \E S \in StatusRows(q, now) :
            \E s \in Ordered(S, [r \in S |-> ByAssignment(r)]) :
                req' = [req EXCEPT ![p] =
                    Listed("ListAssignmentsWithCheckinStatus", role, q, now,
                           Page(s, q.limit, q.offset))]

\* GET /attendance/shifts-without-checkin
ListShiftsWithoutCheckIn(p, role, q, now) ==
    /\ req[p].pc = "idle"
    /\ UNCHANGED <<store, imp>>
    /\ IF ~RequireRole(requireFaculty, role)
       THEN req' = [req EXCEPT ![p] = Response("ListShiftsWithoutCheckIn", StatusForbidden)]
       ELSE \E s \in Ordered(PendingShiftRows(q, now),
                            [r \in PendingShiftRows(q, now) |-> ByAssignment(r)]) :
                req' = [req EXCEPT ![p] =
                    Listed("ListShiftsWithoutCheckIn", role, q, now,
                           Page(s, q.limit, q.offset))]

\* GET /attendance/active-in-shift
ListActiveCheckinsInShift(p, role, q, now) ==
    /\ req[p].pc = "idle"
    /\ UNCHANGED <<store, imp>>
    /\ IF ~RequireRole(requireFaculty, role)
       THEN req' = [req EXCEPT ![p] = Response("ListActiveCheckinsInShift", StatusForbidden)]
       ELSE \E s \in Ordered(ActiveShiftRows(q, now),
                            [r \in ActiveShiftRows(q, now) |-> ByCheckInDesc(r)]) :
                req' = [req EXCEPT ![p] =
                    Listed("ListActiveCheckinsInShift", role, q, now,
                           Page(s, q.limit, q.offset))]

\* GET /attendance/active-in-committee: an id that does not parse and an absent
\* committee_id are answered 400
ListActiveCheckinsInCommittee(p, role, q, now) ==
    /\ req[p].pc = "idle"
    /\ UNCHANGED <<store, imp>>
    /\ IF ~RequireRole(requireFaculty, role)
       THEN req' = [req EXCEPT ![p] =
                Response("ListActiveCheckinsInCommittee", StatusForbidden)]
       ELSE IF q.ev = BadParam \/ q.com = BadParam \/ q.com = NULL
       THEN req' = [req EXCEPT ![p] =
                Response("ListActiveCheckinsInCommittee", StatusBadRequest)]
       ELSE \E s \in Ordered(ActiveCommitteeRows(q),
                            [r \in ActiveCommitteeRows(q) |-> ByCheckInDesc(r)]) :
                req' = [req EXCEPT ![p] =
                    Listed("ListActiveCheckinsInCommittee", role, q, now,
                           Page(s, q.limit, q.offset))]

\* --------------------------------------- volunteers.go: assignment CRUD
RoleVolunteer == "volunteer"
RoleLead == "lead"
RoleSupport == "support"
AssignmentRoles == {RoleVolunteer, RoleLead, RoleSupport}
StatusAssigned == "assigned"
StatusStandby == "standby"
StatusCancelled == "cancelled"
AssignmentStatuses == {StatusAssigned, StatusStandby, StatusCancelled}

\* strings.ToLower on the role and status words the model sends
ToLowerWord(w) ==
    CASE w = "Lead" -> "lead"
      [] w = "LEAD" -> "lead"
      [] w = "Standby" -> "standby"
      [] OTHER -> w

normAssignmentRole(r) ==
    CASE ToLowerWord(r) = "lead" -> RoleLead
      [] ToLowerWord(r) = "support" -> RoleSupport
      [] OTHER -> RoleVolunteer

normAssignmentStatus(st) ==
    CASE ToLowerWord(st) = "standby" -> StatusStandby
      [] ToLowerWord(st) = "cancelled" -> StatusCancelled
      [] OTHER -> StatusAssigned

\* nullable(): the empty string becomes NULL
nullable(str) == IF str = <<>> THEN NullStr ELSE str

\* the rows of table `tbl` with the unique key (event_id, committee_id, volunteer_id)
ByKey(tbl, ev, com, vol) ==
    {a \in tbl : a.event_id = ev /\ a.committee_id = com /\ a.volunteer_id = vol}

\* a plain INSERT into a table without the unique key
InsertAlways(tbl, newId, ev, com, vol, f) ==
    tbl \cup {[id |-> newId, event_id |-> ev, committee_id |-> com, volunteer_id |-> vol,
               role |-> f.role, status |-> f.status,
               reporting_time |-> f.reporting_time, shift |-> f.shift,
               start_time |-> f.start_time, end_time |-> f.end_time, notes |-> f.notes]}

\* an upsert that replaces: the row of the key is written anew under a new id
UpsertNewRow(tbl, newId, ev, com, vol, f) ==
    {a \in tbl : a \notin ByKey(tbl, ev, com, vol)} \cup
    {[id |-> newId, event_id |-> ev, committee_id |-> com, volunteer_id |-> vol,
      role |-> f.role, status |-> f.status,
      reporting_time |-> f.reporting_time, shift |-> f.shift,
      start_time |-> f.start_time, end_time |-> f.end_time, notes |-> f.notes]}

\* an upsert that merges: DO UPDATE SET shift = COALESCE(EXCLUDED.shift, shift),
\* and so on for the nullable columns
UpsertCoalesce(tbl, newId, ev, com, vol, f) ==
    IF ByKey(tbl, ev, com, vol) = {}
    THEN tbl \cup {[id |-> newId, event_id |-> ev, committee_id |-> com, volunteer_id |-> vol,
                    role |-> f.role, status |-> f.status,
                    reporting_time |-> f.reporting_time, shift |-> f.shift,
                    start_time |-> f.start_time, end_time |-> f.end_time, notes |-> f.notes]}
    ELSE {IF a \in ByKey(tbl, ev, com, vol)
          THEN [a EXCEPT !.role = f.role, !.status = f.status,
                         !.reporting_time = IF f.reporting_time = NULL THEN @
                                            ELSE f.reporting_time,
                         !.shift = IF f.shift = NullStr THEN @ ELSE f.shift,
                         !.start_time = IF f.start_time = NULL THEN @ ELSE f.start_time,
                         !.end_time = IF f.end_time = NULL THEN @ ELSE f.end_time,
                         !.notes = IF f.notes = NullStr THEN @ ELSE f.notes]
          ELSE a : a \in tbl}

\* INSERT INTO volunteer_assignments(...) VALUES (...)
\* ON CONFLICT (event_id, committee_id, volunteer_id) DO UPDATE SET role = EXCLUDED.role, ...
\* on table `tbl`, drawing `newId` when the row is inserted; f holds the seven data columns
Upsert(tbl, newId, ev, com, vol, f) ==
    IF ByKey(tbl, ev, com, vol) = {}
    THEN tbl \cup {[id |-> newId, event_id |-> ev, committee_id |-> com, volunteer_id |-> vol,
                    role |-> f.role, status |-> f.status,
                    reporting_time |-> f.reporting_time, shift |-> f.shift,
                    start_time |-> f.start_time, end_time |-> f.end_time, notes |-> f.notes]}
    ELSE {IF a \in ByKey(tbl, ev, com, vol)
          THEN [a EXCEPT !.role = f.role, !.status = f.status,
                         !.reporting_time = f.reporting_time, !.shift = f.shift,
                         !.start_time = f.start_time, !.end_time = f.end_time,
                         !.notes = f.notes]
          ELSE a : a \in tbl}

\* the id RETURNING id gives for the upsert of that key
UpsertId(tbl, newId, ev, com, vol) ==
    IF ByKey(tbl, ev, com, vol) = {} THEN newId
    ELSE (CHOOSE a \in ByKey(tbl, ev, com, vol) : TRUE).id

\* POST /volunteers/assignments: one upsert statement (the SELECT after it only
\* reads); the foreign key on volunteer_id rejects an unknown volunteer
CreateAssignment(p, role, ev, com, vol, f) ==
    /\ req[p].pc = "idle"
    /\ UNCHANGED <<volunteers, faculty, attendance, nextAttId, nextVolId, imp>>
    /\ IF ~RequireRole(requireAdmin, role)
       THEN /\ req' = [req EXCEPT ![p] = Response("CreateAssignment", StatusForbidden)]
            /\ UNCHANGED <<assignments, nextAsgId>>
       ELSE IF ev <= 0 \/ com <= 0 \/ vol <= 0
       THEN /\ req' = [req EXCEPT ![p] = Response("CreateAssignment", StatusBadRequest)]
            /\ UNCHANGED <<assignments, nextAsgId>>
       ELSE IF vol \notin {v.id : v \in volunteers}
       THEN /\ req' = [req EXCEPT ![p] =
                    Response("CreateAssignment", StatusInternalServerError)]
            /\ UNCHANGED <<assignments, nextAsgId>>
       ELSE /\ ByKey(assignments, ev, com, vol) = {} => nextAsgId <= MaxAsg
            /\ assignments' =
                    Upsert(assignments, nextAsgId, ev, com, vol,
                           [f EXCEPT !.role = normAssignmentRole(f.role),
                                     !.status = normAssignmentStatus(f.status)])
            /\ nextAsgId' = IF ByKey(assignments, ev, com, vol) = {}
                            THEN nextAsgId + 1 ELSE nextAsgId
            /\ req' = [req EXCEPT ![p] =
                    [Response("CreateAssignment", StatusCreated) EXCEPT
                        !.id = UpsertId(assignments, nextAsgId, ev, com, vol)]]

\* the value UPDATE volunteer_assignments SET ... stores in column `col` for the
\* request field of that name
SetValue(col, v) ==
    CASE col = "role" -> normAssignmentRole(v)
      [] col = "status" -> normAssignmentStatus(v)
      [] col \in {"shift", "notes"} -> nullable(v)
      [] OTHER -> v

\* PUT /volunteers/assignments/:id: upd carries the fields the body gives
UpdateAssignment(p, role, id, upd) ==
    /\ req[p].pc = "idle"
    /\ UNCHANGED <<volunteers, faculty, attendance, nextAsgId, nextAttId, nextVolId, imp>>
    /\ IF ~RequireRole(requireAdmin, role)
       THEN /\ req' = [req EXCEPT ![p] = Response("UpdateAssignment", StatusForbidden)]
            /\ UNCHANGED assignments
       ELSE IF id <= 0 \/ DOMAIN upd = {}
       THEN /\ req' = [req EXCEPT ![p] = Response("UpdateAssignment", StatusBadRequest)]
            /\ UNCHANGED assignments
       ELSE /\ assignments' =
                    {IF a.id = id
                     THEN [col \in DOMAIN a |->
                              IF col \in DOMAIN upd THEN SetValue(col, upd[col]) ELSE a[col]]
                     ELSE a : a \in assignments}
            /\ req' = [req EXCEPT ![p] =
                    IF id \in AssignmentIds
                    THEN Response("UpdateAssignment", StatusNoContent)
                    ELSE Response("UpdateAssignment", StatusNotFound)]

\* DELETE /volunteers/assignments/:id; attendance.assignment_id is ON DELETE CASCADE
DeleteAssignment(p, role, id) ==
    /\ req[p].pc = "idle"
    /\ UNCHANGED <<volunteers, faculty, nextAsgId, nextAttId, nextVolId, imp>>
    /\ IF ~RequireRole(requireAdmin, role)
       THEN /\ req' = [req EXCEPT ![p] = Response("DeleteAssignment", StatusForbidden)]
            /\ UNCHANGED <<assignments, attendance>>
       ELSE IF id <= 0
       THEN /\ req' = [req EXCEPT ![p] = Response("DeleteAssignment", StatusBadRequest)]
            /\ UNCHANGED <<assignments, attendance>>
       ELSE /\ assignments' = {a \in assignments : a.id # id}
            /\ attendance' = {r \in attendance : r.assignment_id # id}
            /\ req' = [req EXCEPT ![p] =
                    IF id \in AssignmentIds
                    THEN Response("DeleteAssignment", StatusNoContent)
                    ELSE Response("DeleteAssignment", StatusNotFound)]

\* ------------------------------------------- volunteers.go: BulkUpload
LowerStr(str) == [i \in DOMAIN str |-> Lower(str[i])]

defaultIfEmpty(w, def) == IF w = "" THEN def ELSE w

\* notes are joined from the "Group No" and "Faculty" columns
NotesOf(rec) ==
    IF rec.group_no = "" /\ rec.faculty = "" THEN NullStr
    ELSE (IF rec.group_no = "" THEN <<>> ELSE <<"Group No: ", rec.group_no>>)
         \o (IF rec.group_no # "" /\ rec.faculty # "" THEN <<", ">> ELSE <<>>)
         \o (IF rec.faculty = "" THEN <<>> ELSE <<"Faculty: ", rec.faculty>>)

\* SELECT id FROM volunteers WHERE lower(email)=$1, the parameter passed as read
VolunteersByEmail(tbl, email) ==
    IF email = NullStr THEN {}
    ELSE {v \in tbl : v.email # NullStr /\ LowerStr(v.email) = email}

\* SELECT id FROM volunteers WHERE college_id=$1
VolunteersByCollegeID(tbl, collegeID) ==
    IF collegeID = NullStr THEN {}
    ELSE {v \in tbl : v.college_id = collegeID}

\* "Try to find volunteer by email or college_id": email first, then college id
FindVolunteer(tbl, email, collegeID) ==
    IF VolunteersByEmail(tbl, email) # {} THEN VolunteersByEmail(tbl, email)
    ELSE VolunteersByCollegeID(tbl, collegeID)

\* SELECT 1 FROM faculty WHERE lower(email)=$1
ExistsAsFaculty(email) ==
    email # NullStr /\ \E fa \in faculty : fa.email # NullStr /\ LowerStr(fa.email) = email

\* the unique keys volunteers_email_key and volunteers_college_id_key
VolunteerKeyTaken(tbl, email, collegeID) ==
    \/ email # NullStr /\ \E v \in tbl : v.email = email
    \/ collegeID # NullStr /\ \E v \in tbl : v.college_id = collegeID

\* the importer's locals; vIDs keeps, for each row that reached the end of the
\* loop body, the vID the row was resolved to; wvol and wasg are the rows the
\* open transaction tx has written and not yet committed
ImpIdle ==
    [rows |-> <<>>, line |-> 0, ev |-> 0, com |-> 0, createdVols |-> 0,
     createdAssigns |-> 0, updatedAssigns |-> 0, rowErrors |-> <<>>,
     wvol |-> {}, wasg |-> {}, aborted |-> FALSE, vIDs |-> <<>>]

\* what a statement of the transaction reads (READ COMMITTED): the committed
\* rows, and its own uncommitted writes in place of the rows they replace
TxVolunteers(m) == volunteers \cup m.wvol

TxAssignments(m) ==
    {a \in assignments : \A w \in m.wasg : w.id # a.id} \cup m.wasg

\* middleware, query parameters, the header row and pool.Begin
BulkUploadBegin(p, role, ev, com, rows) ==
    /\ req[p].pc = "idle"
    /\ UNCHANGED store
    /\ IF ~RequireRole(requireAdmin, role)
       THEN /\ req' = [req EXCEPT ![p] = Response("BulkUpload", StatusForbidden)]
            /\ UNCHANGED imp
       ELSE IF ev <= 0 \/ com <= 0
       THEN /\ req' = [req EXCEPT ![p] = Response("BulkUpload", StatusBadRequest)]
            /\ UNCHANGED imp
       ELSE /\ req' = [req EXCEPT ![p] =
                    [Idle EXCEPT !.op = "BulkUpload", !.pc = "bu_rows", !.role = role,
                                 !.ev = ev, !.com = com]]
            /\ imp' = [imp EXCEPT ![p] =
                    [ImpIdle EXCEPT !.rows = rows, !.line = 1, !.ev = ev, !.com = com]]

\* the importer's locals after a row that was recorded as a row error
RowFailed(m, msg) ==
    [m EXCEPT !.line = @ + 1,
              !.rowErrors = Append(@, [line |-> m.line + 1, error |-> msg])]

\* a statement the store rejected leaves the transaction aborted: every later
\* statement of it fails and its commit is a rollback
RowAborted(m, msg) == [RowFailed(m, msg) EXCEPT !.aborted = TRUE]

\* the assignment upsert of one row for volunteer vID, on locals m
RowUpsert(m, rec, vID) ==
    LET assignRole == ToLowerWord(defaultIfEmpty(rec.role, "volunteer"))
        assignStatus == ToLowerWord(defaultIfEmpty(rec.status, "assigned"))
        f == [role |-> assignRole, status |-> assignStatus,
              reporting_time |-> rec.reporting_time, shift |-> nullable(rec.shift),
              start_time |-> rec.start_time, end_time |-> rec.end_time,
              notes |-> NotesOf(rec)]
    IN  IF assignRole \notin AssignmentRoles \/ assignStatus \notin AssignmentStatuses
        THEN RowAborted(m, "insert/update assignment")
        ELSE [m EXCEPT !.line = @ + 1,
                       !.vIDs = Append(@, [row |-> m.line, vID |-> vID]),
                       !.wasg = {w \in @ : w \notin ByKey(@, m.ev, m.com, vID)} \cup
                                ByKey(Upsert(TxAssignments(m), nextAsgId, m.ev, m.com, vID, f),
                                      m.ev, m.com, vID),
                       !.updatedAssigns =
                            IF ByKey(TxAssignments(m), m.ev, m.com, vID) # {}
                            THEN @ + 1 ELSE @,
                       !.createdAssigns =
                            IF ByKey(TxAssignments(m), m.ev, m.com, vID) = {}
                            THEN @ + 1 ELSE @]

\* the importer's locals after the INSERT INTO volunteers of a row
RowNewVolunteer(m, rec) ==
    [m EXCEPT !.wvol = @ \cup {[id |-> nextVolId, name |-> rec.name,
                                email |-> nullable(rec.email),
                                college_id |-> nullable(rec.roll_no),
                                password_hash |-> NullStr]},
              !.createdVols = @ + 1]

\* one turn of the loop over the data rows
BulkUploadRow(p) ==
    /\ req[p].pc = "bu_rows"
    /\ imp[p].line <= Len(imp[p].rows)
    /\ UNCHANGED <<volunteers, faculty, assignments, attendance, nextAttId, req>>
    /\ LET m == imp[p]
           rec == m.rows[m.line]
           email == nullable(rec.email)
           collegeID == nullable(rec.roll_no)
           found == FindVolunteer(TxVolunteers(m), email, collegeID)
       IN  /\ IF rec.name = ""
              THEN /\ imp' = [imp EXCEPT ![p] = RowFailed(m, "missing name")]
                   /\ UNCHANGED nextVolId
              ELSE IF BadTime \in {rec.reporting_time, rec.start_time, rec.end_time}
              THEN /\ imp' = [imp EXCEPT ![p] = RowFailed(m, "bad time (RFC3339)")]
                   /\ UNCHANGED nextVolId
              ELSE IF m.aborted
              THEN /\ imp' = [imp EXCEPT ![p] =
                           RowFailed(m, "current transaction is aborted")]
                   /\ UNCHANGED nextVolId
              ELSE IF found # {}
              THEN /\ \E v \in found : imp' = [imp EXCEPT ![p] = RowUpsert(m, rec, v.id)]
                   /\ UNCHANGED nextVolId
              ELSE IF ExistsAsFaculty(email)
              THEN /\ imp' = [imp EXCEPT ![p] =
                           RowFailed(m, "already registered as a faculty member")]
                   /\ UNCHANGED nextVolId
              ELSE IF VolunteerKeyTaken(TxVolunteers(m), email, collegeID)
              THEN /\ imp' = [imp EXCEPT ![p] = RowAborted(m, "insert volunteer")]
                   /\ UNCHANGED nextVolId
              ELSE /\ imp' = [imp EXCEPT ![p] =
                           RowUpsert(RowNewVolunteer(m, rec), rec, nextVolId)]
                   /\ nextVolId' = nextVolId + 1
           /\ nextAsgId' = IF imp'[p].createdAssigns > m.createdAssigns
                           THEN nextAsgId + 1 ELSE nextAsgId
           /\ nextVolId' <= MaxVol + 1
           /\ nextAsgId' > nextAsgId => nextAsgId <= MaxAsg

\* the store fails the first statement of a row (the err != nil branches that
\* are not sql.ErrNoRows): the row is recorded as an error and the transaction
\* is lost
BulkUploadRowFails(p) ==
    /\ req[p].pc = "bu_rows"
    /\ imp[p].line <= Len(imp[p].rows)
    /\ ~imp[p].aborted
    /\ LET rec == imp[p].rows[imp[p].line]
       IN  /\ rec.name # ""
           /\ BadTime \notin {rec.reporting_time, rec.start_time, rec.end_time}
    /\ imp' = [imp EXCEPT ![p] = RowAborted(imp[p], "check existing volunteer")]
    /\ UNCHANGED <<store, req>>

\* the answer of a handler whose writes outlive a failed commit, as they would
\* had the statements run on the pool instead of on tx
CommitKeepsWrites(p, storeFails) ==
    /\ req[p].pc = "bu_rows"
    /\ imp[p].line > Len(imp[p].rows)
    /\ UNCHANGED <<faculty, attendance, nextAsgId, nextAttId, nextVolId>>
    /\ imp' = [imp EXCEPT ![p] = ImpIdle]
    /\ volunteers' = TxVolunteers(imp[p])
    /\ assignments' = TxAssignments(imp[p])
    /\ req' = [req EXCEPT ![p] =
            Response("BulkUpload", IF imp[p].aborted \/ storeFails
                                   THEN StatusInternalServerError ELSE StatusOK)]

\* tx.Commit and the JSON answer; the commit of an aborted transaction, or one
\* the store fails, returns an error and rolls the transaction back
BulkUploadCommit(p, storeFails) ==
    /\ req[p].pc = "bu_rows"
    /\ imp[p].line > Len(imp[p].rows)
    /\ UNCHANGED <<faculty, attendance, nextAsgId, nextAttId, nextVolId>>
    /\ imp' = [imp EXCEPT ![p] = ImpIdle]
    /\ IF imp[p].aborted \/ storeFails
       THEN /\ UNCHANGED <<volunteers, assignments>>
            /\ req' = [req EXCEPT ![p] = Response("BulkUpload", StatusInternalServerError)]
       ELSE /\ volunteers' = TxVolunteers(imp[p])
            /\ assignments' = TxAssignments(imp[p])
            /\ req' = [req EXCEPT ![p] =
                    [Response("BulkUpload", StatusOK) EXCEPT
                        !.created_volunteers = imp[p].createdVols,
                        !.created_assignments = imp[p].createdAssigns,
                        !.updated_assignments = imp[p].updatedAssigns,
                        !.errors = imp[p].rowErrors]]

\* ------------- volunteers.go: CreateSingle, UpdateVolunteer, DeleteVolunteer
\* the stored hash of a password
BcryptHash == <<"#">>

\* POST /volunteers: the email is looked up in lower case in both tables and
\* stored as given; a nil email or college id is NullStr
CreateSingle(p, role, name, email, collegeID, password) ==
    /\ req[p].pc = "idle"
    /\ UNCHANGED <<faculty, assignments, attendance, nextAsgId, nextAttId, imp>>
    /\ IF ~RequireRole(requireAdmin, role)
       THEN /\ req' = [req EXCEPT ![p] = Response("CreateSingle", StatusForbidden)]
            /\ UNCHANGED <<volunteers, nextVolId>>
       ELSE IF name = "" \/ email = <<>>
       THEN /\ req' = [req EXCEPT ![p] = Response("CreateSingle", StatusBadRequest)]
            /\ UNCHANGED <<volunteers, nextVolId>>
       ELSE IF \/ ExistsAsFaculty(IF email = NullStr THEN NullStr ELSE LowerStr(email))
               \/ VolunteersByEmail(volunteers,
                                    IF email = NullStr THEN NullStr ELSE LowerStr(email)) # {}
       THEN /\ req' = [req EXCEPT ![p] = Response("CreateSingle", StatusConflict)]
            /\ UNCHANGED <<volunteers, nextVolId>>
       ELSE IF collegeID # NullStr /\ \E v \in volunteers : v.college_id = collegeID
       THEN /\ req' = [req EXCEPT ![p] = Response("CreateSingle", StatusConflict)]
            /\ UNCHANGED <<volunteers, nextVolId>>
       ELSE IF VolunteerKeyTaken(volunteers, email, NullStr)
       THEN /\ req' = [req EXCEPT ![p] =
                    Response("CreateSingle", StatusInternalServerError)]
            /\ UNCHANGED <<volunteers, nextVolId>>
       ELSE /\ nextVolId <= MaxVol
            /\ volunteers' = volunteers \cup
                    {[id |-> nextVolId, name |-> name, email |-> email,
                      college_id |-> collegeID, password_hash |-> password]}
            /\ nextVolId' = nextVolId + 1
            /\ req' = [req EXCEPT ![p] =
                    [Response("CreateSingle", StatusCreated) EXCEPT !.id = nextVolId]]

\* PUT /volunteers/:id: b holds the fields of the body that are present, each
\* trimmed; both email lookups are given the email as written
UpdateVolunteer(p, role, id, b) ==
    /\ req[p].pc = "idle"
    /\ UNCHANGED <<faculty, assignments, attendance, nextAsgId, nextAttId, nextVolId, imp>>
    /\ LET has(col) == col \in DOMAIN b
           others == {v \in volunteers : v.id # id}
           updated(v) ==
               [v EXCEPT !.email = IF ~has("email") THEN @ ELSE nullable(b["email"]),
                         !.college_id = IF ~has("college_id") THEN @
                                        ELSE nullable(b["college_id"])]
       IN  IF ~RequireRole(requireAdmin, role)
           THEN /\ req' = [req EXCEPT ![p] = Response("UpdateVolunteer", StatusForbidden)]
                /\ UNCHANGED volunteers
           ELSE IF id <= 0
           THEN /\ req' = [req EXCEPT ![p] = Response("UpdateVolunteer", StatusBadRequest)]
                /\ UNCHANGED volunteers
           ELSE IF /\ has("email")
                   /\ b["email"] # <<>>
                   /\ \/ VolunteersByEmail(others, b["email"]) # {}
                      \/ ExistsAsFaculty(b["email"])
           THEN /\ req' = [req EXCEPT ![p] = Response("UpdateVolunteer", StatusConflict)]
                /\ UNCHANGED volunteers
           ELSE IF /\ has("college_id")
                   /\ VolunteersByCollegeID(others, nullable(b["college_id"])) # {}
           THEN /\ req' = [req EXCEPT ![p] = Response("UpdateVolunteer", StatusConflict)]
                /\ UNCHANGED volunteers
           ELSE IF DOMAIN b = {}
           THEN /\ req' = [req EXCEPT ![p] = Response("UpdateVolunteer", StatusBadRequest)]
                /\ UNCHANGED volunteers
           ELSE IF /\ id \in {v.id : v \in volunteers}
                   /\ has("email")
                   /\ VolunteerKeyTaken(others, nullable(b["email"]), NullStr)
           THEN /\ req' = [req EXCEPT ![p] = Response("UpdateVolunteer", StatusConflict)]
                /\ UNCHANGED volunteers
           ELSE /\ volunteers' = {IF v.id = id THEN updated(v) ELSE v : v \in volunteers}
                /\ req' = [req EXCEPT ![p] =
                        IF id \in {v.id : v \in volunteers}
                        THEN Response("UpdateVolunteer", StatusNoContent)
                        ELSE Response("UpdateVolunteer", StatusNotFound)]

\* DELETE /volunteers/:id: one DELETE; volunteer_assignments.volunteer_id and
\* attendance.assignment_id are ON DELETE CASCADE
DeleteVolunteer(p, role, id) ==
    /\ req[p].pc = "idle"
    /\ UNCHANGED <<faculty, nextAsgId, nextAttId, nextVolId, imp>>
    /\ IF ~RequireRole(requireAdmin, role)
       THEN /\ req' = [req EXCEPT ![p] = Response("DeleteVolunteer", StatusForbidden)]
            /\ UNCHANGED <<volunteers, assignments, attendance>>
       ELSE IF id <= 0
       THEN /\ req' = [req EXCEPT ![p] = Response("DeleteVolunteer", StatusBadRequest)]
            /\ UNCHANGED <<volunteers, assignments, attendance>>
       ELSE /\ volunteers' = {v \in volunteers : v.id # id}
            /\ assignments' = {a \in assignments : a.volunteer_id # id}
            /\ attendance' =
                    {r \in attendance :
                        \A a \in assignments : a.id = r.assignment_id => a.volunteer_id # id}
            /\ req' = [req EXCEPT ![p] =
                    IF id \in {v.id : v \in volunteers}
                    THEN Response("DeleteVolunteer", StatusNoContent)
                    ELSE Response("DeleteVolunteer", StatusNotFound)]

\* ------------------------------ auth.go: registerVolunteer, registerFaculty
\* POST /auth/register/volunteer (public): the email is lowered before it is
\* looked up and stored; an account without a password is claimed
registerVolunteer(p, name, email, collegeID, password) ==
    /\ req[p].pc = "idle"
    /\ UNCHANGED <<faculty, assignments, attendance, nextAsgId, nextAttId, imp>>
    /\ LET lowered == LowerStr(email)
           found == VolunteersByEmail(volunteers, lowered)
       IN  IF name = "" \/ email = <<>> \/ password = <<>>
           THEN /\ req' = [req EXCEPT ![p] = Response("registerVolunteer", StatusBadRequest)]
                /\ UNCHANGED <<volunteers, nextVolId>>
           ELSE IF ExistsAsFaculty(lowered)
           THEN /\ req' = [req EXCEPT ![p] = Response("registerVolunteer", StatusConflict)]
                /\ UNCHANGED <<volunteers, nextVolId>>
           ELSE IF found # {}
           THEN \E f \in found :
                    /\ UNCHANGED nextVolId
                    /\ IF f.password_hash # NullStr
                       THEN /\ req' = [req EXCEPT ![p] =
                                    Response("registerVolunteer", StatusConflict)]
                            /\ UNCHANGED volunteers
                       ELSE IF VolunteerKeyTaken(volunteers \ {f}, NullStr, collegeID)
                       THEN /\ req' = [req EXCEPT ![p] =
                                    Response("registerVolunteer", StatusConflict)]
                            /\ UNCHANGED volunteers
                       ELSE IF VolunteerKeyTaken(volunteers \ {f}, lowered, NullStr)
                       THEN /\ req' = [req EXCEPT ![p] =
                                    Response("registerVolunteer", StatusInternalServerError)]
                            /\ UNCHANGED volunteers
                       ELSE /\ volunteers' = (volunteers \ {f}) \cup
                                    {[f EXCEPT !.name = name, !.email = lowered,
                                               !.college_id = collegeID,
                                               !.password_hash = BcryptHash]}
                            /\ req' = [req EXCEPT ![p] =
                                    [Response("registerVolunteer", StatusOK)
                                        EXCEPT !.id = f.id]]
           ELSE IF VolunteerKeyTaken(volunteers, NullStr, collegeID)
           THEN /\ req' = [req EXCEPT ![p] = Response("registerVolunteer", StatusConflict)]
                /\ UNCHANGED <<volunteers, nextVolId>>
           ELSE /\ nextVolId <= MaxVol
                /\ volunteers' = volunteers \cup
                        {[id |-> nextVolId, name |-> name, email |-> lowered,
                          college_id |-> collegeID, password_hash |-> BcryptHash]}
                /\ nextVolId' = nextVolId + 1
                /\ req' = [req EXCEPT ![p] =
                        [Response("registerVolunteer", StatusCreated) EXCEPT !.id = nextVolId]]

\* POST /auth/register/faculty (admin): the email is lowered for the lookup in
\* volunteers and for the INSERT; faculty.email is unique
registerFaculty(p, role, name, email, password) ==
    /\ req[p].pc = "idle"
    /\ UNCHANGED <<volunteers, assignments, attendance, nextAsgId, nextAttId, nextVolId, imp>>
    /\ IF ~RequireRole(requireAdmin, role)
       THEN /\ req' = [req EXCEPT ![p] = Response("registerFaculty", StatusForbidden)]
            /\ UNCHANGED faculty
       ELSE IF name = "" \/ email = <<>> \/ password = <<>>
       THEN /\ req' = [req EXCEPT ![p] = Response("registerFaculty", StatusBadRequest)]
            /\ UNCHANGED faculty
       ELSE IF VolunteersByEmail(volunteers, LowerStr(email)) # {}
       THEN /\ req' = [req EXCEPT ![p] = Response("registerFaculty", StatusConflict)]
            /\ UNCHANGED faculty
       ELSE IF \E fa \in faculty : fa.email = LowerStr(email)
       THEN /\ req' = [req EXCEPT ![p] = Response("registerFaculty", StatusConflict)]
            /\ UNCHANGED faculty
       ELSE /\ faculty' = faculty \cup
                    {[id |-> Cardinality(faculty) + 1, email |-> LowerStr(email)]}
            /\ req' = [req EXCEPT ![p] = Response("registerFaculty", StatusCreated)]

\* ------------------------------------------- auth.go: refresh, logout
\* sha256b64: the digest stored for a refresh token, distinct for distinct tokens
sha256b64(token) == <<"sha256", token>>

\* the raw token issueTokens builds from the clock, the user and the role: a
\* value no earlier session carries
FreshToken == Cardinality(sessions) + 1

\* SELECT s.faculty_id, f.role, s.expires_at, s.revoked_at FROM auth_sessions s
\* JOIN faculty f ON f.id = s.faculty_id WHERE s.refresh_token_hash = $1
SessionsOf(hashR) ==
    {x \in sessions : /\ x.refresh_token_hash = hashR
                      /\ \E f \in faculty : f.id = x.faculty_id}

\* UPDATE auth_sessions SET revoked_at=NOW() WHERE refresh_token_hash=$1
Revoked(hashR, now) ==
    {IF x.refresh_token_hash = hashR THEN [x EXCEPT !.revoked_at = now] ELSE x :
        x \in sessions}

\* refresh requests that have passed the lookup and will still insert a session
PendingRefreshes ==
    Cardinality({q \in Procs : req[q].op = "refresh" /\ req[q].pc \in {"rf_revoke", "rf_issue"}})

\* POST /auth/refresh: body validation and the lookup of the session (LIMIT 1).
\* No row: 401 when the driver's no-rows error is sql.ErrNoRows, else the
\* error itself (500). A revoked session is answered 401, an expired one is
\* revoked first
RefreshBegin(p, token, now) ==
    /\ req[p].pc = "idle"
    /\ Cardinality(sessions) + PendingRefreshes < MaxSessions
    /\ UNCHANGED <<store, imp, sessions>>
    /\ LET r == [Idle EXCEPT !.op = "refresh", !.token = token, !.ts = now]
       IN  IF token = 0
           THEN req' = [req EXCEPT ![p] = Response("refresh", StatusBadRequest)]
           ELSE IF SessionsOf(sha256b64(token)) = {}
           THEN \E status \in {StatusUnauthorized, StatusInternalServerError} :
                    req' = [req EXCEPT ![p] = Answer(r, status)]
           ELSE \E x \in SessionsOf(sha256b64(token)) :
                    req' = [req EXCEPT ![p] =
                        IF x.revoked_at # NULL THEN Answer(r, StatusUnauthorized)
                        ELSE IF now > x.expires_at THEN [r EXCEPT !.pc = "rf_expired"]
                        ELSE [r EXCEPT !.pc = "rf_revoke", !.sub = x.faculty_id]]

\* the expired session is marked revoked (the statement's error is dropped); 401
RefreshExpired(p, now, storeFails) ==
    /\ req[p].pc = "rf_expired"
    /\ UNCHANGED <<store, imp>>
    /\ sessions' = IF storeFails THEN sessions ELSE Revoked(sha256b64(req[p].token), now)
    /\ req' = [req EXCEPT ![p] = Answer(req[p], StatusUnauthorized)]

\* "Rotate refresh: revoke old": the UPDATE, its error dropped
RefreshRevoke(p, now, storeFails) ==
    /\ req[p].pc = "rf_revoke"
    /\ UNCHANGED <<store, imp>>
    /\ sessions' = IF storeFails THEN sessions ELSE Revoked(sha256b64(req[p].token), now)
    /\ req' = [req EXCEPT ![p].pc = "rf_issue"]

\* issueTokens for a faculty or admin user: INSERT INTO auth_sessions(...,
\* expires_at) VALUES (..., NOW() + ttl) and the response with both tokens;
\* a failed INSERT is returned (500)
issueTokens(p, now, storeFails) ==
    /\ req[p].pc = "rf_issue"
    /\ UNCHANGED <<store, imp>>
    /\ IF storeFails
       THEN /\ UNCHANGED sessions
            /\ req' = [req EXCEPT ![p] = Answer(req[p], StatusInternalServerError)]
       ELSE /\ sessions' = sessions \cup
                    {[id |-> FreshToken, faculty_id |-> req[p].sub,
                      refresh_token_hash |-> sha256b64(FreshToken),
                      expires_at |-> now + RefreshTTL, revoked_at |-> NULL]}
            /\ req' = [req EXCEPT ![p] =
                    [Answer(req[p], StatusOK) EXCEPT !.refresh_token = FreshToken]]

\* POST /auth/logout with a token in the body: the UPDATE, then 204
logout(p, token, now) ==
    /\ req[p].pc = "idle"
    /\ UNCHANGED <<store, imp>>
    /\ sessions' = IF token = 0 THEN sessions ELSE Revoked(sha256b64(token), now)
    /\ req' = [req EXCEPT ![p] = Response("logout", StatusNoContent)]

\* ------------------------------------ announcements.go: ListForVolunteer
\* ORDER BY CASE a.priority WHEN 'urgent' THEN 1 ... ELSE 4 END, a.created_at DESC
PriorityRank(priority) ==
    CASE priority = "urgent" -> 1
      [] priority = "high" -> 2
      [] priority = "normal" -> 3
      [] OTHER -> 4

ByPriority(a) == <<PriorityRank(a.priority), 0 - a.created_at>>

\* (a.event_id = ANY($1) AND a.committee_id IS NULL)
EventWide(a, events) == a.event_id \in events /\ a.committee_id = NULL

\* (a.committee_id = ANY($2)); a NULL committee_id equals nothing
OfCommittees(a, committees) == a.committee_id # NULL /\ a.committee_id \in committees

\* (a.expires_at IS NULL OR a.expires_at > NOW())
Unexpired(a, now) == a.expires_at = NULL \/ a.expires_at > now

\* the WHERE clause: the conditions appended to whereConditions, the
\* active_only one included, joined with " OR "
AnnouncementsFor(events, committees, activeOnly, now) ==
    {a \in announcements :
        \/ EventWide(a, events)
        \/ committees # {} /\ OfCommittees(a, committees)
        \/ activeOnly /\ Unexpired(a, now)}

\* SELECT DISTINCT event_id, committee_id FROM volunteer_assignments WHERE volunteer_id = $1
AssignedTo(volunteerID) == {va \in assignments : va.volunteer_id = volunteerID}

\* the handler of GET /announcements/me, entered behind jwtGuard and
\* requireVolunteer, up to its first query: active_only (default true), limit
\* and offset, the volunteer's event and committee ids; a volunteer without
\* assignment is answered an empty list
ListForVolunteerBegin(p, sub, role, activeOnly, limit, offset) ==
    /\ req[p].pc = "idle"
    /\ UNCHANGED <<store, imp, sessions, announcements>>
    /\ LET r == [Idle EXCEPT !.op = "ListForVolunteer", !.sub = sub, !.role = role,
                              !.active_only = activeOnly,
                              !.q = [NoQuery EXCEPT !.limit = limit, !.offset = offset],
                              !.events = {va.event_id : va \in AssignedTo(sub)},
                              !.committees = {va.committee_id : va \in AssignedTo(sub)}]
       IN  req' = [req EXCEPT ![p] =
                IF ~RequireRole(requireVolunteer, role)
                THEN Response("ListForVolunteer", StatusForbidden)
                ELSE IF AssignedTo(sub) = {}
                THEN Answer(r, StatusOK)
                ELSE [r EXCEPT !.pc = "lv_query"]]

\* the query on announcements and the JSON array
ListForVolunteerQuery(p, now) ==
    /\ req[p].pc = "lv_query"
    /\ UNCHANGED <<store, imp, sessions, announcements>>
    /\ \E s \in LET S == AnnouncementsFor(req[p].events, req[p].committees,
                                           req[p].active_only, now)
                 IN  Ordered(S, [a \in S |-> ByPriority(a)]) :
            req' = [req EXCEPT ![p] =
                [Answer([req[p] EXCEPT !.ts = now], StatusOK)
                    EXCEPT !.rows = Page(s, req[p].q.limit, req[p].q.offset)]]

\* ------------------------------------------------------------ requests
\* the callers of the attendance routes: two volunteers and a faculty member
Callers ==
    {[sub |-> 1, role |-> UserRoleVolunteer], [sub |-> 2, role |-> UserRoleVolunteer],
     [sub |-> 1, role |-> UserRoleFaculty]}

\* a CreateVolunteerAssignmentRequest that gives only the three ids
DefaultFields ==
    [role |-> "", status |-> "", reporting_time |-> NULL, shift |-> NullStr,
     start_time |-> NULL, end_time |-> NULL, notes |-> NullStr]

\* the bodies of POST /volunteers/assignments the model sends
AssignmentRequests ==
    {[ev |-> 1, com |-> 1, vol |-> 1, f |-> [DefaultFields EXCEPT !.shift = Morning]],
     [ev |-> 1, com |-> 1, vol |-> 2,
      f |-> [DefaultFields EXCEPT !.shift = Evening, !.role = "Lead"]],
     [ev |-> 1, com |-> 2, vol |-> 2, f |-> [DefaultFields EXCEPT !.shift = morning]],
     [ev |-> 0, com |-> 1, vol |-> 1, f |-> DefaultFields],
     [ev |-> 1, com |-> 1, vol |-> 3, f |-> DefaultFields]}

\* the bodies of PUT /volunteers/assignments/:id the model sends
AssignmentUpdates ==
    {<<>>, [shift |-> Evening]}

\* the query strings of POST /attendance/checkout-shift the model sends
ShiftSelectors ==
    {[ev |-> 1, com |-> c, shift |-> f] : c \in Committees, f \in ShiftFilters}
    \cup {[ev |-> NULL, com |-> 1, shift |-> <<"M">>], [ev |-> 1, com |-> 1, shift |-> <<>>]}

\* a data row of the roster file, by header: name, email, Roll No, shift, role,
\* status, the three *_iso times (parsed), Group No, Faculty
BaseRow ==
    [name |-> "n", email |-> <<>>, roll_no |-> <<>>, shift |-> <<>>, role |-> "",
     status |-> "", reporting_time |-> NULL, start_time |-> NULL, end_time |-> NULL,
     group_no |-> "", faculty |-> ""]

RosterRows ==
    {BaseRow,
     [BaseRow EXCEPT !.email = <<"m">>, !.shift = Evening, !.group_no = "7"],
     [BaseRow EXCEPT !.email = <<"M">>, !.role = "LEAD"],
     [BaseRow EXCEPT !.roll_no = <<"o">>, !.shift = Morning, !.faculty = "f"],
     [BaseRow EXCEPT !.roll_no = <<"v">>, !.status = "Standby"],
     [BaseRow EXCEPT !.email = <<"e">>],
     [BaseRow EXCEPT !.email = <<"E">>],
     [BaseRow EXCEPT !.name = ""],
     [BaseRow EXCEPT !.email = <<"m">>, !.start_time = BadTime],
     [BaseRow EXCEPT !.roll_no = <<"o">>, !.role = "chief"]}

\* a row the importer accepts: a name, times that parse, a role and a status of the enums
ValidRow(rec) ==
    /\ rec.name # ""
    /\ BadTime \notin {rec.reporting_time, rec.start_time, rec.end_time}
    /\ ToLowerWord(defaultIfEmpty(rec.role, "volunteer")) \in AssignmentRoles
    /\ ToLowerWord(defaultIfEmpty(rec.status, "assigned")) \in AssignmentStatuses

\* the roster files an admin may hold: one or two data rows for (event 1, committee 1)
RosterUploads ==
    {[rows |-> rows, ev |-> 1, com |-> 1, runs |-> 0] :
        rows \in {<<r>> : r \in RosterRows} \cup
                 {<<r1, r2>> : r1 \in RosterRows, r2 \in RosterRows}}

\* the roster file of the mixed workload
MixedUpload ==
    [rows |-> <<[BaseRow EXCEPT !.email = <<"m">>, !.shift = Morning],
                [BaseRow EXCEPT !.name = ""]>>,
     ev |-> 1, com |-> 1, runs |-> 0]

\* -------------------------------------------------------------- Init
\* the store holds two volunteers and one faculty member and no assignment or
\* attendance yet; every connection is idle
InitStore ==
    /\ volunteers = {[id |-> 1, name |-> "a", email |-> <<"m">>, college_id |-> NullStr,
                      password_hash |-> NullStr],
                     [id |-> 2, name |-> "b", email |-> NullStr, college_id |-> <<"o">>,
                      password_hash |-> NullStr]}
    /\ faculty = {[id |-> 1, email |-> <<"e">>]}
    /\ assignments = {}
    /\ attendance = {}
    /\ nextAsgId = 1
    /\ nextAttId = 1
    /\ nextVolId = 3
    /\ req = [p \in Procs |-> Idle]
    /\ imp = [p \in Procs |-> ImpIdle]
    /\ sessions = {}
    /\ announcements = {}

Init == InitStore /\ upload = MixedUpload

InitImport == InitStore /\ upload \in RosterUploads

\* -------------------------------------------------------------- Next
\* the admin sends the roster file it holds
BulkUploadFile(p, role) == BulkUploadBegin(p, role, upload.ev, upload.com, upload.rows)

\* a committed import is one more run of the file
RunCommitted(p) ==
    /\ upload' = IF req'[p].status = StatusOK THEN [upload EXCEPT !.runs = @ + 1] ELSE upload
    /\ UNCHANGED <<sessions, announcements>>

\* requests on connection p
CheckInP(p) ==
    \E c \in Callers, aid \in 0..MaxAsg, ts \in Times : CheckInBegin(p, c.sub, c.role, aid, ts)
CheckOutP(p) ==
    \E c \in Callers, att \in 0..MaxAtt, ts \in Times : CheckOutBegin(p, c.sub, c.role, att, ts)
CheckoutShiftP(p) ==
    \E role \in {UserRoleVolunteer, UserRoleFaculty}, q \in ShiftSelectors, now \in Times :
        CheckoutShiftBegin(p, role, q.ev, q.com, q.shift, now)
CreateAssignmentP(p) ==
    \E role \in {UserRoleFaculty, UserRoleAdmin}, b \in AssignmentRequests :
        CreateAssignment(p, role, b.ev, b.com, b.vol, b.f)
UpdateAssignmentP(p) ==
    \E role \in {UserRoleFaculty, UserRoleAdmin}, id \in 0..MaxAsg, upd \in AssignmentUpdates :
        UpdateAssignment(p, role, id, upd)
DeleteAssignmentP(p) ==
    \E role \in {UserRoleFaculty, UserRoleAdmin}, id \in 0..MaxAsg : DeleteAssignment(p, role, id)
BulkUploadP(p) ==
    \E role \in {UserRoleFaculty, UserRoleAdmin} : BulkUploadFile(p, role)

\* one client: each request runs to completion before the next one starts
NextSeq ==
    \/ CheckInP(1) /\ UNCHANGED <<upload, sessions, announcements>>
    \/ CheckInLookup(1) /\ UNCHANGED <<upload, sessions, announcements>>
    \/ CheckInInsert(1) /\ UNCHANGED <<upload, sessions, announcements>>
    \/ CheckOutP(1) /\ UNCHANGED <<upload, sessions, announcements>>
    \/ CheckOutClosed(1) /\ UNCHANGED <<upload, sessions, announcements>>
    \/ CheckOutUpdate(1) /\ UNCHANGED <<upload, sessions, announcements>>
    \/ CheckoutShiftP(1) /\ UNCHANGED <<upload, sessions, announcements>>
    \/ (\E id \in 1..MaxAtt : CheckoutShiftUpdate(1, id, FALSE))
            /\ UNCHANGED <<upload, sessions, announcements>>
    \/ CheckoutShiftRespond(1) /\ UNCHANGED <<upload, sessions, announcements>>
    \/ CreateAssignmentP(1) /\ UNCHANGED <<upload, sessions, announcements>>
    \/ UpdateAssignmentP(1) /\ UNCHANGED <<upload, sessions, announcements>>
    \/ DeleteAssignmentP(1) /\ UNCHANGED <<upload, sessions, announcements>>
    \/ BulkUploadP(1) /\ UNCHANGED <<upload, sessions, announcements>>
    \/ BulkUploadRow(1) /\ UNCHANGED <<upload, sessions, announcements>>
    \/ BulkUploadCommit(1, FALSE) /\ UNCHANGED <<upload, sessions, announcements>>
    \/ Finish(1) /\ UNCHANGED <<upload, sessions, announcements>>

SpecSeq == Init /\ [][NextSeq]_vars

\* two connections served concurrently, statement by statement: volunteer 1
\* checks in and out of assignment 1, a faculty member sweeps its shift, an
\* admin creates and deletes it; the store may fail an UPDATE of the sweep
Next ==
    \E p \in Procs :
        \/ (\E ts \in Times : CheckInBegin(p, 1, UserRoleVolunteer, 1, ts)) /\ UNCHANGED <<upload, sessions, announcements>>
        \/ CheckInLookup(p) /\ UNCHANGED <<upload, sessions, announcements>>
        \/ CheckInInsert(p) /\ UNCHANGED <<upload, sessions, announcements>>
        \/ (\E att \in 1..MaxAtt, ts \in 1..MaxTime :
                CheckOutBegin(p, 1, UserRoleVolunteer, att, ts)) /\ UNCHANGED <<upload, sessions, announcements>>
        \/ CheckOutClosed(p) /\ UNCHANGED <<upload, sessions, announcements>>
        \/ CheckOutUpdate(p) /\ UNCHANGED <<upload, sessions, announcements>>
        \/ CheckoutShiftBegin(p, UserRoleFaculty, 1, 1, <<"m", "O">>, MaxTime) /\ UNCHANGED <<upload, sessions, announcements>>
        \/ (\E id \in 1..MaxAtt, storeFails \in BOOLEAN : CheckoutShiftUpdate(p, id, storeFails))
                /\ UNCHANGED <<upload, sessions, announcements>>
        \/ CheckoutShiftRespond(p) /\ UNCHANGED <<upload, sessions, announcements>>
        \/ CreateAssignment(p, UserRoleAdmin, 1, 1, 1, [DefaultFields EXCEPT !.shift = Morning])
                /\ UNCHANGED <<upload, sessions, announcements>>
        \/ UpdateAssignment(p, UserRoleAdmin, 1, [shift |-> Evening]) /\ UNCHANGED <<upload, sessions, announcements>>
        \/ DeleteAssignment(p, UserRoleAdmin, 1) /\ UNCHANGED <<upload, sessions, announcements>>
        \/ Finish(p) /\ UNCHANGED <<upload, sessions, announcements>>

Spec == Init /\ [][Next]_vars

\* one admin importing the roster file it holds, again and again
NextImport ==
    \/ upload.runs < MaxRuns /\ BulkUploadP(1) /\ UNCHANGED <<upload, sessions, announcements>>
    \/ BulkUploadRow(1) /\ UNCHANGED <<upload, sessions, announcements>>
    \/ (\E storeFails \in BOOLEAN : BulkUploadCommit(1, storeFails)) /\ RunCommitted(1)
    \/ Finish(1) /\ UNCHANGED <<upload, sessions, announcements>>

SpecImport == InitImport /\ [][NextImport]_vars

\* the rows another connection's open transaction holds a lock on: the
\* assignments it has inserted or overwritten and not yet committed
LockedKeys(p) ==
    {<<w.event_id, w.committee_id, w.volunteer_id>> :
        w \in UNION {imp[q].wasg : q \in Procs \ {p}}}

LockedIds(p) ==
    {w.id : w \in UNION {imp[q].wasg : q \in Procs \ {p}}} \cap AssignmentIds

\* the roster files of the concurrent workload: they name volunteer 1 by email,
\* volunteer 2 by institution id and a person not yet known
RosterFiles ==
    {[rows |-> rows, ev |-> 1, com |-> 1, runs |-> 0] :
        rows \in {<<[BaseRow EXCEPT !.email = <<"m">>, !.shift = Evening, !.group_no = "7"],
                    [BaseRow EXCEPT !.roll_no = <<"o">>, !.shift = Morning, !.faculty = "f"]>>,
                  <<[BaseRow EXCEPT !.email = <<"m">>, !.shift = Evening, !.group_no = "7"],
                    [BaseRow EXCEPT !.name = ""]>>,
                  <<[BaseRow EXCEPT !.roll_no = <<"v">>, !.status = "Standby"],
                    [BaseRow EXCEPT !.email = <<"m">>, !.shift = Evening, !.group_no = "7"]>>,
                  <<[BaseRow EXCEPT !.roll_no = <<"o">>, !.shift = Morning, !.faculty = "f"],
                    [BaseRow EXCEPT !.roll_no = <<"o">>, !.role = "chief"]>>,
                  <<[BaseRow EXCEPT !.roll_no = <<"o">>, !.shift = Morning, !.faculty = "f"],
                    [BaseRow EXCEPT !.roll_no = <<"o">>]>>}}

InitRoster == InitStore /\ upload \in RosterFiles

\* the next row of p's import needs a row lock or a unique-index entry that
\* another connection's open transaction holds: the Assignment key of the
\* volunteer it resolves to, or the email or institution id of a Volunteer the
\* other transaction has inserted
RowWaits(p) ==
    LET m == imp[p]
        rec == m.rows[m.line]
        found == FindVolunteer(TxVolunteers(m), nullable(rec.email), nullable(rec.roll_no))
        others == UNION {imp[q].wvol : q \in Procs \ {p}}
    IN  /\ rec.name # ""
        /\ BadTime \notin {rec.reporting_time, rec.start_time, rec.end_time}
        /\ ~m.aborted
        /\ IF found # {}
           THEN \E v \in found : <<m.ev, m.com, v.id>> \in LockedKeys(p)
           ELSE VolunteerKeyTaken(others, nullable(rec.email), nullable(rec.roll_no))

\* admins on two connections import the roster file, row by row inside a
\* transaction each, and create and delete assignments, statement by
\* statement; a statement that needs a row another transaction has locked
\* waits for its commit; the store may fail a row or the commit
NextRoster ==
    \E p \in Procs :
        \/ upload.runs < MaxRuns /\ BulkUploadP(p) /\ UNCHANGED <<upload, sessions, announcements>>
        \/ req[p].pc = "bu_rows" /\ imp[p].line <= Len(imp[p].rows) /\ ~RowWaits(p)
                /\ BulkUploadRow(p) /\ UNCHANGED <<upload, sessions, announcements>>
        \/ BulkUploadRowFails(p) /\ UNCHANGED <<upload, sessions, announcements>>
        \/ (\E storeFails \in BOOLEAN : BulkUploadCommit(p, storeFails)) /\ RunCommitted(p)
        \/ (\E b \in AssignmentRequests :
                /\ b.vol \in {1, 2}
                /\ <<b.ev, b.com, b.vol>> \notin LockedKeys(p)
                /\ CreateAssignment(p, UserRoleAdmin, b.ev, b.com, b.vol, b.f))
                /\ UNCHANGED <<upload, sessions, announcements>>
        \/ (\E id \in 1..MaxAsg :
                id \notin LockedIds(p) /\ DeleteAssignment(p, UserRoleAdmin, id))
                /\ UNCHANGED <<upload, sessions, announcements>>
        \/ Finish(p) /\ UNCHANGED <<upload, sessions, announcements>>

SpecRoster == InitRoster /\ [][NextRoster]_vars

\* the volunteers an assignment written by another connection's open
\* transaction refers to: the foreign key holds a lock on their rows
LockedVolunteers(p) ==
    {w.volunteer_id : w \in UNION {imp[q].wasg : q \in Procs \ {p}}}

\* two connections: a volunteer checks in to assignment 1 (lookups and INSERT
\* as separate statements) while admins create and delete assignments, delete
\* volunteers and import the roster file inside a transaction
NextIntegrity ==
    \E p \in Procs :
        \/ CheckInBegin(p, 1, UserRoleVolunteer, 1, 0) /\ UNCHANGED <<upload, sessions, announcements>>
        \/ CheckInLookup(p) /\ UNCHANGED <<upload, sessions, announcements>>
        \/ CheckInInsert(p) /\ UNCHANGED <<upload, sessions, announcements>>
        \/ (\E vol \in {1, 2} :
                /\ <<1, 1, vol>> \notin LockedKeys(p)
                /\ CreateAssignment(p, UserRoleAdmin, 1, 1, vol,
                                    [DefaultFields EXCEPT !.shift = Morning]))
                /\ UNCHANGED <<upload, sessions, announcements>>
        \/ (\E id \in 1..MaxAsg :
                id \notin LockedIds(p) /\ DeleteAssignment(p, UserRoleAdmin, id))
                /\ UNCHANGED <<upload, sessions, announcements>>
        \/ (\E id \in 1..2 :
                id \notin LockedVolunteers(p) /\ DeleteVolunteer(p, UserRoleAdmin, id))
                /\ UNCHANGED <<upload, sessions, announcements>>
        \/ upload.runs < MaxRuns /\ BulkUploadFile(p, UserRoleAdmin) /\ UNCHANGED <<upload, sessions, announcements>>
        \/ req[p].pc = "bu_rows" /\ imp[p].line <= Len(imp[p].rows) /\ ~RowWaits(p)
                /\ BulkUploadRow(p) /\ UNCHANGED <<upload, sessions, announcements>>
        \/ BulkUploadCommit(p, FALSE) /\ RunCommitted(p)
        \/ Finish(p) /\ UNCHANGED <<upload, sessions, announcements>>

SpecIntegrity == Init /\ [][NextIntegrity]_vars

\* the emails and institution ids the identity requests carry: the stored
\* ones in another letter case
RequestEmails == {<<"M">>, <<"E">>}
RequestCollegeIDs == {NullStr, <<"o">>}

\* the bodies of PUT /volunteers/:id the model sends
VolunteerUpdates ==
    {<<>>, [email |-> <<>>], [college_id |-> <<"o">>]}
    \cup {[email |-> e] : e \in RequestEmails}

\* the one-row roster files of the identity workload
IdentityFiles ==
    {[rows |-> <<r>>, ev |-> 1, com |-> 1, runs |-> 0] :
        r \in {[BaseRow EXCEPT !.email = <<"M">>, !.role = "LEAD"],
                [BaseRow EXCEPT !.email = <<"E">>],
                [BaseRow EXCEPT !.roll_no = <<"o">>, !.shift = Morning, !.faculty = "f"]}}

InitIdentity == InitStore /\ upload \in IdentityFiles

\* the requests that create or change an identity, each run to completion
\* before the next: self-registration, faculty registration, the admin's
\* creation and update of a volunteer, and the roster import
NextIdentity ==
    \/ (\E e \in RequestEmails, c \in RequestCollegeIDs :
            registerVolunteer(1, "n", e, c, <<"p">>)) /\ UNCHANGED <<upload, sessions, announcements>>
    \/ (\E e \in RequestEmails :
            registerFaculty(1, UserRoleAdmin, "n", e, <<"p">>)) /\ UNCHANGED <<upload, sessions, announcements>>
    \/ (\E e \in RequestEmails, c \in RequestCollegeIDs :
            CreateSingle(1, UserRoleAdmin, "n", e, c, NullStr)) /\ UNCHANGED <<upload, sessions, announcements>>
    \/ (\E id \in 1..3, b \in VolunteerUpdates :
            UpdateVolunteer(1, UserRoleAdmin, id, b)) /\ UNCHANGED <<upload, sessions, announcements>>
    \/ BulkUploadP(1) /\ UNCHANGED <<upload, sessions, announcements>>
    \/ BulkUploadRow(1) /\ UNCHANGED <<upload, sessions, announcements>>
    \/ BulkUploadCommit(1, FALSE) /\ UNCHANGED <<upload, sessions, announcements>>
    \/ Finish(1) /\ UNCHANGED <<upload, sessions, announcements>>

SpecIdentity == InitIdentity /\ [][NextIdentity]_vars

\* an assignment of event 1 as POST /volunteers/assignments stores it
ScheduledAssignment(id, com, vol, shift, start) ==
    [id |-> id, event_id |-> 1, committee_id |-> com, volunteer_id |-> vol,
     role |-> RoleVolunteer, status |-> StatusAssigned, reporting_time |-> NULL,
     shift |-> shift, start_time |-> start, end_time |-> NULL, notes |-> NullStr]

\* the store the projections read: the two volunteers, and three assignments an
\* admin has created: two of committee 1 starting at two instants of day 0,
\* and one of committee 2 without shift or start time
InitViews ==
    /\ volunteers = {[id |-> 1, name |-> "a", email |-> <<"m">>, college_id |-> NullStr,
                      password_hash |-> NullStr],
                     [id |-> 2, name |-> "b", email |-> NullStr, college_id |-> <<"o">>,
                      password_hash |-> NullStr]}
    /\ faculty = {[id |-> 1, email |-> <<"e">>]}
    /\ assignments = {ScheduledAssignment(1, 1, 1, Morning, 0),
                      ScheduledAssignment(2, 1, 2, Evening, 1),
                      ScheduledAssignment(3, 2, 2, NullStr, NULL)}
    /\ attendance = {}
    /\ nextAsgId = 4
    /\ nextAttId = 1
    /\ nextVolId = 3
    /\ req = [p \in Procs |-> Idle]
    /\ imp = [p \in Procs |-> ImpIdle]
    /\ sessions = {}
    /\ announcements = {}
    /\ upload = MixedUpload

\* the query strings the faculty member sends to the projections
ViewQueries ==
    {NoQuery,
     [NoQuery EXCEPT !.date = 0],
     [NoQuery EXCEPT !.date = 1],
     [NoQuery EXCEPT !.date = BadTime],
     [NoQuery EXCEPT !.ev = 1, !.com = 1, !.shift = <<"m", "O">>, !.date = 0],
     [NoQuery EXCEPT !.com = 1],
     [NoQuery EXCEPT !.com = 1, !.date = 0, !.limit = 1],
     [NoQuery EXCEPT !.com = 1, !.date = 0, !.limit = 1, !.offset = 1],
     [NoQuery EXCEPT !.ev = BadParam, !.com = 2],
     [NoQuery EXCEPT !.com = BadParam],
     [NoQuery EXCEPT !.vol = 2, !.from = 0],
     [NoQuery EXCEPT !.to = 0, !.date = 1]}

\* the instants at which a projection is asked
ViewClock == {0, MaxTime}

\* connection 1 serves volunteer 1 and 2 checking in and out of their
\* assignments and, between these, faculty (and a volunteer, who is refused)
\* reading the four projections; connection 2 serves a second check-in of
\* volunteer 1 to assignment 1
NextViews ==
    \/ (\E aid \in 1..2, ts \in Times :
            CheckInBegin(1, aid, UserRoleVolunteer, aid, ts)) /\ UNCHANGED <<upload, sessions, announcements>>
    \/ CheckInBegin(2, 1, UserRoleVolunteer, 1, 0) /\ UNCHANGED <<upload, sessions, announcements>>
    \/ (\E p \in Procs : CheckInLookup(p)) /\ UNCHANGED <<upload, sessions, announcements>>
    \/ (\E p \in Procs : CheckInInsert(p)) /\ UNCHANGED <<upload, sessions, announcements>>
    \/ (\E att \in 1..MaxAtt, ts \in Times :
            CheckOutBegin(1, 1, UserRoleVolunteer, att, ts)) /\ UNCHANGED <<upload, sessions, announcements>>
    \/ CheckOutClosed(1) /\ UNCHANGED <<upload, sessions, announcements>>
    \/ CheckOutUpdate(1) /\ UNCHANGED <<upload, sessions, announcements>>
    \/ (\E role \in {UserRoleFaculty, UserRoleVolunteer}, q \in ViewQueries, now \in ViewClock :
            ListAssignmentsWithCheckinStatus(1, role, q, now)) /\ UNCHANGED <<upload, sessions, announcements>>
    \/ (\E role \in {UserRoleFaculty, UserRoleVolunteer}, q \in ViewQueries, now \in ViewClock :
            ListShiftsWithoutCheckIn(1, role, q, now)) /\ UNCHANGED <<upload, sessions, announcements>>
    \/ (\E role \in {UserRoleFaculty, UserRoleVolunteer}, q \in ViewQueries, now \in ViewClock :
            ListActiveCheckinsInShift(1, role, q, now)) /\ UNCHANGED <<upload, sessions, announcements>>
    \/ (\E role \in {UserRoleFaculty, UserRoleVolunteer}, q \in ViewQueries, now \in ViewClock :
            ListActiveCheckinsInCommittee(1, role, q, now)) /\ UNCHANGED <<upload, sessions, announcements>>
    \/ (\E p \in Procs : Finish(p)) /\ UNCHANGED <<upload, sessions, announcements>>

SpecViews == InitViews /\ [][NextViews]_vars

\* the roles a token carries
UserRoles == {UserRoleVolunteer, UserRoleFaculty, UserRoleAdmin}

\* the requests of the three role-gated route groups that a caller of `role`
\* sends on connection p
AdminRoute(p, role) ==
    \/ BulkUploadFile(p, role)
    \/ CreateAssignment(p, role, 1, 1, 1, [DefaultFields EXCEPT !.shift = Evening])
    \/ UpdateAssignment(p, role, 1, [shift |-> Evening])
    \/ \E id \in {1, 3} : DeleteAssignment(p, role, id)
    \/ CreateSingle(p, role, "n", <<"v">>, NullStr, NullStr)
    \/ UpdateVolunteer(p, role, 2, [college_id |-> <<"v">>])
    \/ DeleteVolunteer(p, role, 2)

FacultyRoute(p, role) ==
    \/ CheckoutShiftBegin(p, role, 1, 1, <<"m", "O">>, MaxTime)
    \/ ListAssignmentsWithCheckinStatus(p, role, NoQuery, 0)
    \/ ListShiftsWithoutCheckIn(p, role, NoQuery, 0)
    \/ ListActiveCheckinsInShift(p, role, NoQuery, 0)
    \/ ListActiveCheckinsInCommittee(p, role, [NoQuery EXCEPT !.com = 1], 0)

VolunteerRoute(p, role) ==
    \/ \E aid \in 1..2 : CheckInBegin(p, 1, role, aid, 0)
    \/ \E att \in 1..MaxAtt : CheckOutBegin(p, 1, role, att, 1)

\* callers of every role send requests to every gated route, one request at a
\* time, over the store of three assignments
NextRoles ==
    \/ (\E role \in UserRoles : AdminRoute(1, role)) /\ UNCHANGED <<upload, sessions, announcements>>
    \/ (\E role \in UserRoles : FacultyRoute(1, role)) /\ UNCHANGED <<upload, sessions, announcements>>
    \/ (\E role \in UserRoles : VolunteerRoute(1, role)) /\ UNCHANGED <<upload, sessions, announcements>>
    \/ CheckInLookup(1) /\ UNCHANGED <<upload, sessions, announcements>>
    \/ CheckInInsert(1) /\ UNCHANGED <<upload, sessions, announcements>>
    \/ CheckOutClosed(1) /\ UNCHANGED <<upload, sessions, announcements>>
    \/ CheckOutUpdate(1) /\ UNCHANGED <<upload, sessions, announcements>>
    \/ (\E id \in 1..MaxAtt : CheckoutShiftUpdate(1, id, FALSE)) /\ UNCHANGED <<upload, sessions, announcements>>
    \/ CheckoutShiftRespond(1) /\ UNCHANGED <<upload, sessions, announcements>>
    \/ BulkUploadRow(1) /\ UNCHANGED <<upload, sessions, announcements>>
    \/ BulkUploadCommit(1, FALSE) /\ UNCHANGED <<upload, sessions, announcements>>
    \/ Finish(1) /\ UNCHANGED <<upload, sessions, announcements>>

SpecRoles == InitViews /\ [][NextRoles]_vars

\* faculty member 1 has logged in at instant 0 and holds refresh token 1
InitAuth ==
    /\ volunteers = {}
    /\ faculty = {[id |-> 1, email |-> <<"e">>]}
    /\ assignments = {}
    /\ attendance = {}
    /\ nextAsgId = 1
    /\ nextAttId = 1
    /\ nextVolId = 1
    /\ req = [p \in Procs |-> Idle]
    /\ imp = [p \in Procs |-> ImpIdle]
    /\ upload = MixedUpload
    /\ sessions = {[id |-> 1, faculty_id |-> 1, refresh_token_hash |-> sha256b64(1),
                    expires_at |-> RefreshTTL, revoked_at |-> NULL]}
    /\ announcements = {}

\* two connections serve refresh and logout requests carrying the tokens
\* issued so far, an unknown token or none, statement by statement; the store
\* may fail a statement
NextAuth ==
    \E p \in Procs :
        \/ (\E token \in 0..MaxSessions, now \in Times : RefreshBegin(p, token, now))
                /\ UNCHANGED <<upload, announcements>>
        \/ (\E now \in Times, storeFails \in BOOLEAN : RefreshExpired(p, now, storeFails))
                /\ UNCHANGED <<upload, announcements>>
        \/ (\E now \in Times, storeFails \in BOOLEAN : RefreshRevoke(p, now, storeFails))
                /\ UNCHANGED <<upload, announcements>>
        \/ (\E now \in Times, storeFails \in BOOLEAN : issueTokens(p, now, storeFails))
                /\ UNCHANGED <<upload, announcements>>
        \/ (\E token \in 0..2, now \in Times : logout(p, token, now))
                /\ UNCHANGED <<upload, announcements>>
        \/ Finish(p) /\ UNCHANGED <<sessions, upload, announcements>>

SpecAuth == InitAuth /\ [][NextAuth]_vars

\* an announcement as POST /announcements stores it
Announcement(id, ev, com, priority, created, expires) ==
    [id |-> id, event_id |-> ev, committee_id |-> com, priority |-> priority,
     created_at |-> created, expires_at |-> expires]

\* the announcements an admin may have published: one for all of event 1, one
\* for committee 1 that expires at instant 1, one for all of event 2 and one
\* for committee 3 of event 2 that expired at instant 0
PublishedAnnouncements ==
    {Announcement(1, 1, NULL, "normal", 0, NULL),
     Announcement(2, 1, 1, "urgent", 1, 1),
     Announcement(3, 2, NULL, "high", 0, NULL),
     Announcement(4, 2, 3, "low", MaxTime, 0)}

\* the store of three assignments (volunteer 1 in committee 1, volunteer 2 in
\* committees 1 and 2, all of event 1) with any of those announcements
InitAnnounce ==
    /\ volunteers = {[id |-> 1, name |-> "a", email |-> <<"m">>, college_id |-> NullStr,
                      password_hash |-> NullStr],
                     [id |-> 2, name |-> "b", email |-> NullStr, college_id |-> <<"o">>,
                      password_hash |-> NullStr]}
    /\ faculty = {[id |-> 1, email |-> <<"e">>]}
    /\ assignments = {ScheduledAssignment(1, 1, 1, Morning, 0),
                      ScheduledAssignment(2, 1, 2, Evening, 1),
                      ScheduledAssignment(3, 2, 2, NullStr, NULL)}
    /\ attendance = {}
    /\ nextAsgId = 4
    /\ nextAttId = 1
    /\ nextVolId = 3
    /\ req = [p \in Procs |-> Idle]
    /\ imp = [p \in Procs |-> ImpIdle]
    /\ upload = MixedUpload
    /\ sessions = {}
    /\ announcements \in SUBSET PublishedAnnouncements

\* volunteers 1 and 2, a volunteer without assignment and a faculty member
\* ask for their announcements while an admin deletes assignments
NextAnnounce ==
    \/ (\E sub \in 1..3, role \in {UserRoleVolunteer, UserRoleFaculty},
          activeOnly \in BOOLEAN, limit \in {NULL, 1} :
            ListForVolunteerBegin(1, sub, role, activeOnly, limit, NULL))
            /\ UNCHANGED upload
    \/ (\E now \in Times : ListForVolunteerQuery(1, now)) /\ UNCHANGED upload
    \/ (\E id \in 1..3 : DeleteAssignment(1, UserRoleAdmin, id))
            /\ UNCHANGED <<upload, sessions, announcements>>
    \/ Finish(1) /\ UNCHANGED <<upload, sessions, announcements>>

SpecAnnounce == InitAnnounce /\ [][NextAnnounce]_vars

\* ============================================================ properties
\* two instants of the same calendar day
SameDay(t1, t2) == t1 \div TicksPerDay = t2 \div TicksPerDay

\* the Attendance rows of table `tbl` for assignment aid that are open and
\* whose check-in is on the day of ts
OpenSameDay(tbl, aid, ts) ==
    {r \in tbl : r.assignment_id = aid /\ r.check_out_time = NULL
                 /\ SameDay(r.check_in_time, ts)}

\* C1: when two check-ins for one Assignment on the same calendar day run
\* concurrently, at most one creates an Attendance: no reachable state has two
\* Attendance rows with null check-out for the same Assignment and check-in day
C1_NoTwoOpenSameDay ==
    \A r1 \in attendance, r2 \in attendance :
        (/\ r1.id # r2.id
         /\ r1.assignment_id = r2.assignment_id
         /\ r1.check_out_time = NULL
         /\ r2.check_out_time = NULL)
        => ~SameDay(r1.check_in_time, r2.check_in_time)

\* C2: after any sequence of requests each run to completion, and whatever
\* timestamps they supply, every (Assignment, calendar day) pair has at most one
\* Attendance row checked in on that day with a null check-out
C2_AtMostOneOpenPerDay ==
    \A aid \in 1..(MaxAsg + 1), ts \in Times :
        Cardinality(OpenSameDay(attendance, aid, ts)) <= 1

\* an Assignment has an open Attendance next to a closed one of the same day
C2_OpenBesideClosed ==
    \E r1 \in attendance, r2 \in attendance :
        /\ r1.assignment_id = r2.assignment_id
        /\ SameDay(r1.check_in_time, r2.check_in_time)
        /\ r1.check_out_time = NULL
        /\ r2.check_out_time # NULL

\* the step in which the handler of `op` on connection 1 answers
Answers(op) == req[1].pc # "done" /\ req'[1].pc = "done" /\ req'[1].op = op

\* C3: check-out of an Attendance id that is open answers 204 and sets its
\* check-out timestamp; check-out of an id whose row is already closed answers
\* 409, never 404; check-out of an id with no row answers 404; the two failing
\* cases change no Attendance row
C3_CheckOutAnswers ==
    [][(Answers("CheckOut") /\ req[1].pc # "idle") =>
        LET id == req[1].att
            rows == {r \in attendance : r.id = id}
        IN  /\ (\E r \in rows : r.check_out_time = NULL) =>
                /\ req'[1].status = StatusNoContent
                /\ attendance' = {IF r.id = id THEN [r EXCEPT !.check_out_time = req[1].ts]
                                  ELSE r : r \in attendance}
            /\ (\E r \in rows : r.check_out_time # NULL) =>
                /\ req'[1].status = StatusConflict
                /\ attendance' = attendance
            /\ rows = {} =>
                /\ req'[1].status = StatusNotFound
                /\ attendance' = attendance]_vars

\* a second check-out of a closed row has been answered with the conflict
C3_SecondCheckOutConflict ==
    /\ req[1].op = "CheckOut"
    /\ req[1].pc = "done"
    /\ req[1].status = StatusConflict
    /\ \E r \in attendance : r.id = req[1].att /\ r.check_out_time # NULL

\* C4: an Attendance row with a check-out timestamp never gets it set back to
\* null or replaced, and no operation changes the check-in timestamp or the
\* Assignment of an existing row: a row only ever goes from open to closed
C4_ClosedStaysClosed ==
    [][\A r \in attendance, r2 \in attendance' :
        r2.id = r.id =>
            /\ r2.assignment_id = r.assignment_id
            /\ r2.check_in_time = r.check_in_time
            /\ r.check_out_time # NULL => r2.check_out_time = r.check_out_time]_vars

\* a check-out that found the row open has been answered after another request
\* closed the row at a different instant
C4_LateCheckOutOfClosedRow ==
    \E p \in Procs, r \in attendance :
        /\ req[p].op = "CheckOut"
        /\ req[p].pc = "done"
        /\ req[p].status = StatusNotFound
        /\ r.id = req[p].att
        /\ r.check_out_time # NULL
        /\ r.check_out_time # req[p].ts

ClosedSameDay(tbl, aid, ts) ==
    {r \in tbl : r.assignment_id = aid /\ r.check_out_time # NULL
                 /\ SameDay(r.check_in_time, ts)}

C7_OwnAssignmentOnly ==
    (req[1].pc = "done" /\ req[1].role = UserRoleVolunteer) =>
        /\ (req[1].op = "CheckIn" /\ req[1].status = StatusCreated) =>
              \E a \in assignments : a.id = req[1].aid /\ a.volunteer_id = req[1].sub
        /\ (req[1].op = "CheckOut" /\ req[1].status = StatusNoContent) =>
              \E r \in attendance, a \in assignments :
                  /\ r.id = req[1].att
                  /\ a.id = r.assignment_id
                  /\ a.volunteer_id = req[1].sub

\* the shift label contains S, compared case-insensitively; NULL is no label
ContainsFold(label, S) ==
    /\ label # NullStr
    /\ \E i \in 0..(Len(label) - Len(S)) :
          \A j \in 1..Len(S) : Lower(label[i + j]) = Lower(S[j])

\* the Attendance row belongs to an Assignment of event ev, committee com and a
\* shift label containing S
MatchesSelector(r, ev, com, S) ==
    \E va \in assignments : /\ va.id = r.assignment_id
                            /\ va.event_id = ev
                            /\ va.committee_id = com
                            /\ ContainsFold(va.shift, S)

\* C8: bulk shift closeout for (E, C, S), run without failures or concurrent
\* writers, sets the check-out of exactly the Attendance rows that were open and
\* whose Assignment has event E, committee C and a shift label containing S
\* case-insensitively, all to the same instant; no open row matching the
\* selector remains, and every other row is unchanged
C8_ClosesExactlyMatching ==
    [][(req[1].op = "CheckoutShift" /\ req[1].pc = "cs_update") =>
        /\ \A r \in attendance \ attendance' :
              /\ r.check_out_time = NULL
              /\ MatchesSelector(r, req[1].ev, req[1].com, req[1].shift)
              /\ [r EXCEPT !.check_out_time = req[1].ts] \in attendance'
        /\ attendance' \ attendance \subseteq
              {[r EXCEPT !.check_out_time = req[1].ts] : r \in attendance}
        /\ req'[1].pc = "done" =>
              \A r \in attendance' :
                  MatchesSelector(r, req[1].ev, req[1].com, req[1].shift)
                      => r.check_out_time # NULL]_vars

\* C9: in bulk shift closeout a store failure on one selected row does not
\* abort the sweep: it goes on to the other rows and answers 200, every
\* selected row whose UPDATE did not fail is closed, and the count it reports
\* is the number of rows this request itself turned from open to closed
C9_CountsOwnCloses ==
    [][\A p \in Procs :
        (req[p].pc = "cs_update" /\ req'[p] # req[p]) =>
            IF req'[p].pc = "cs_update"
            THEN req'[p].closed - req[p].closed =
                    Cardinality({r \in attendance :
                        /\ r.check_out_time = NULL
                        /\ \E r2 \in attendance' :
                              r2.id = r.id /\ r2.check_out_time # NULL})
            ELSE /\ req'[p].pc = "done"
                 /\ req'[p].status = StatusOK
                 /\ req'[p].count = req[p].closed
                 /\ attendance' = attendance
                 /\ \A r \in attendance :
                       r.id \in req[p].sel \ req[p].failedIds => r.check_out_time # NULL]_vars

\* a sweep has answered with a count after the store failed one of its rows
\* and it closed another
C9_PartialSweep ==
    \E p \in Procs :
        /\ req[p].op = "CheckoutShift"
        /\ req[p].pc = "done"
        /\ req[p].failedIds # {}
        /\ req[p].count >= 1
        /\ req[p].count < Cardinality(req[p].sel)

\* C10: importing the same rows twice in succession for the same (event,
\* committee) reports created_volunteers = 0 and created_assignments = 0 on the
\* second run, creates no Volunteer or Assignment row and leaves every
\* Assignment's fields as the first run left them, for every batch of valid
\* rows, whichever of email and institution id each row carries or omits
C10_ReimportIdempotent ==
    [][(/\ req[1].pc = "bu_rows"
        /\ req'[1].pc = "done"
        /\ req'[1].status = StatusOK
        /\ upload.runs >= 1
        /\ \A i \in DOMAIN upload.rows : ValidRow(upload.rows[i])) =>
            /\ req'[1].created_volunteers = 0
            /\ req'[1].created_assignments = 0
            /\ volunteers' = volunteers
            /\ assignments' = assignments]_vars

\* ------------------------------------------------- the roster importer
\* the step in which the importer on connection 1 leaves the row loop and commits
ImportAnswers == req[1].pc = "bu_rows" /\ req'[1].pc = "done"

\* the data rows of a file that have an empty name
EmptyNameRows(rows) == {i \in DOMAIN rows : rows[i].name = ""}

\* a row's email is the email of a Faculty record, letter case apart
FacultyEmail(rec) ==
    \E fa \in faculty : fa.email # NullStr /\ LowerStr(fa.email) = LowerStr(rec.email)

\* the named rows of a file name distinct persons: no two share an email
\* (letter case apart) or an institution id
DistinctPersons(rows) ==
    \A i \in DOMAIN rows, j \in DOMAIN rows :
        (i < j /\ rows[i].name # "" /\ rows[j].name # "") =>
            /\ rows[i].email = <<>> \/ LowerStr(rows[i].email) # LowerStr(rows[j].email)
            /\ rows[i].roll_no = <<>> \/ rows[i].roll_no # rows[j].roll_no

\* a batch of valid rows, each naming a distinct person, and rows with an empty name
ValidOrNameless(rows) ==
    /\ DistinctPersons(rows)
    /\ \A i \in DOMAIN rows :
        rows[i].name = "" \/ (ValidRow(rows[i]) /\ ~FacultyEmail(rows[i]))

\* the line numbers of a list of row errors
ErrorLines(errs) == {errs[i].line : i \in DOMAIN errs}

\* C11: for a batch of v valid rows, each naming a distinct person, and k rows
\* with an empty name, the import commits and reports created_assignments +
\* updated_assignments = v and exactly k error entries, one per empty-name row
\* with its line number counted from the header as line 1; created_assignments
\* is the number of Assignment rows new after the import, updated_assignments
\* the number of rows that overwrote an existing Assignment
C11_CountersAndLines ==
    [][(ImportAnswers /\ ValidOrNameless(imp[1].rows)) =>
        LET rows == imp[1].rows
            k == Cardinality(EmptyNameRows(rows))
            v == Len(rows) - k
        IN  /\ ~imp[1].aborted
            /\ req'[1].status = StatusOK =>
                /\ req'[1].created_assignments + req'[1].updated_assignments = v
                /\ Len(req'[1].errors) = k
                /\ ErrorLines(req'[1].errors) = {i + 1 : i \in EmptyNameRows(rows)}
                /\ req'[1].created_assignments =
                     Cardinality({a \in assignments' :
                                    \A b \in assignments : b.id # a.id})
                /\ req'[1].updated_assignments =
                     Cardinality({i \in DOMAIN imp[1].vIDs :
                        ByKey(assignments, imp[1].ev, imp[1].com,
                              imp[1].vIDs[i].vID) # {}})]_vars

\* the data rows of a file that reached the end of the loop body and were counted
CountedRows(m) == {m.vIDs[j].row : j \in DOMAIN m.vIDs}

\* the error entries the importer recorded for data row i (line i + 1 of the file)
ErrorsOfRow(m, i) == {j \in DOMAIN m.rowErrors : m.rowErrors[j].line = i + 1}

\* C12: a row-level failure of the import (an empty name, a malformed
\* timestamp, a Faculty email collision, a Volunteer or Assignment write the
\* store rejects) affects that row only: it is one error entry, the transaction
\* is not aborted, and every valid row before and after it is still committed
\* and counted
C12_RowFailureIsLocal ==
    [][ImportAnswers =>
        LET m == imp[1]
        IN  /\ ~m.aborted
            /\ \A i \in DOMAIN m.rows :
                /\ i \in CountedRows(m) <=> ErrorsOfRow(m, i) = {}
                /\ Cardinality(ErrorsOfRow(m, i)) <= 1
                /\ (ValidRow(m.rows[i]) /\ ~FacultyEmail(m.rows[i])) =>
                     \A j \in ErrorsOfRow(m, i) :
                        m.rowErrors[j].error # "current transaction is aborted"
            /\ req'[1].status = StatusOK =>
                \A i \in CountedRows(m) :
                    \E j \in DOMAIN m.vIDs :
                        /\ m.vIDs[j].row = i
                        /\ ByKey(assignments', m.ev, m.com, m.vIDs[j].vID) # {}]_vars

\* C13: the import's writes are all-or-nothing: while the rows are scanned the
\* importer changes no committed Volunteer or Assignment row, so no other
\* request observes part of a batch; an import that ends in a failure leaves
\* none of its rows behind; an import that commits applies every row it wrote
\* in that one step
C13_AllOrNothing ==
    [][/\ (req[1].pc = "bu_rows" /\ req'[1].pc = "bu_rows" /\ imp'[1] # imp[1]) =>
            UNCHANGED <<volunteers, assignments, attendance>>
       /\ (ImportAnswers /\ req'[1].status # StatusOK) =>
            /\ UNCHANGED <<volunteers, assignments, attendance>>
            /\ imp[1].wvol \cap volunteers' = {}
            /\ \A w \in imp[1].wasg : w \in assignments' => w \in assignments
       /\ (ImportAnswers /\ req'[1].status = StatusOK) =>
            /\ imp[1].wvol \subseteq volunteers'
            /\ imp[1].wasg \subseteq assignments']_vars

\* an import that wrote a Volunteer and an Assignment fails at its last row
\* while the other connection is between two requests
C13_FailsAfterWrites ==
    /\ req[1].pc = "bu_rows"
    /\ imp[1].line > Len(imp[1].rows)
    /\ imp[1].aborted
    /\ imp[1].wvol # {}
    /\ imp[1].wasg # {}
    /\ req[2].pc = "done"

\* the importer on connection 1 takes a row that reaches the identity
\* resolution, inside a transaction that is still usable
ResolvesRow ==
    /\ req[1].pc = "bu_rows"
    /\ imp[1].line <= Len(imp[1].rows)
    /\ imp'[1].line = imp[1].line + 1
    /\ ~imp[1].aborted
    /\ ValidRow(imp[1].rows[imp[1].line])

\* the row just taken was resolved to one of the Volunteers of S and no
\* Volunteer was created for it
UsesOneOf(S) ==
    /\ imp'[1].wvol = imp[1].wvol
    /\ Len(imp'[1].vIDs) = Len(imp[1].vIDs) + 1
    /\ imp'[1].vIDs[Len(imp'[1].vIDs)].vID \in {v.id : v \in S}

\* the row just taken was recorded as an error and wrote nothing
RecordedAsError ==
    /\ Len(imp'[1].rowErrors) = Len(imp[1].rowErrors) + 1
    /\ imp'[1].rowErrors[Len(imp'[1].rowErrors)].line = imp[1].line + 1
    /\ imp'[1].wvol = imp[1].wvol
    /\ imp'[1].wasg = imp[1].wasg
    /\ imp'[1].vIDs = imp[1].vIDs

\* a new Volunteer was created for the row just taken and the row resolved to it
CreatesVolunteer ==
    /\ Cardinality(imp'[1].wvol) = Cardinality(imp[1].wvol) + 1
    /\ Len(imp'[1].vIDs) = Len(imp[1].vIDs) + 1
    /\ imp'[1].vIDs[Len(imp'[1].vIDs)].vID \in {v.id : v \in imp'[1].wvol \ imp[1].wvol}

\* C14: each import row resolves its Volunteer in this order: the Volunteer
\* with the row's email, if the row has one and such a Volunteer exists; else
\* the Volunteer with the row's institution id; else a new Volunteer, unless
\* the email is a Faculty record's, and then the row is an error and creates
\* nothing. The Volunteers searched include those created by earlier rows of
\* the batch. (Emails are compared here as spelled, the weakest reading.)
C14_ResolutionOrder ==
    [][ResolvesRow =>
        LET m == imp[1]
            rec == m.rows[m.line]
            byEmail == {v \in TxVolunteers(m) : rec.email # <<>> /\ v.email = rec.email}
            byCollegeID ==
                {v \in TxVolunteers(m) : rec.roll_no # <<>> /\ v.college_id = rec.roll_no}
        IN  IF byEmail # {} THEN UsesOneOf(byEmail)
            ELSE IF byCollegeID # {} THEN UsesOneOf(byCollegeID)
            ELSE IF \E fa \in faculty : rec.email # <<>> /\ fa.email = rec.email
                 THEN RecordedAsError
            ELSE CreatesVolunteer]_vars

\* the Volunteers a transaction reads whose email is the row's, letter case apart
SameEmailFold(m, rec) ==
    {v \in TxVolunteers(m) :
        rec.email # <<>> /\ v.email # NullStr /\ LowerStr(v.email) = LowerStr(rec.email)}

\* C15: email matching in the import's identity resolution is case-insensitive:
\* a row whose email differs only in letter case from the stored email of a
\* Volunteer resolves to that Volunteer and creates no Volunteer; a row that
\* matches no Volunteer and whose email differs only in letter case from a
\* Faculty email is rejected as a Faculty collision
C15_EmailMatchIgnoresCase ==
    [][ResolvesRow =>
        LET m == imp[1]
            rec == m.rows[m.line]
        IN  /\ SameEmailFold(m, rec) # {} => UsesOneOf(SameEmailFold(m, rec))
            /\ (/\ SameEmailFold(m, rec) = {}
                /\ VolunteersByCollegeID(TxVolunteers(m), nullable(rec.roll_no)) = {}
                /\ FacultyEmail(rec)) => RecordedAsError]_vars

\* C16: in every state reachable through volunteer self-registration, faculty
\* registration, admin volunteer creation, admin volunteer update and roster
\* import, no email (letter case apart) is held by two Volunteers or by a
\* Volunteer and a Faculty record, and no institution id by two Volunteers
C16_IdentityUnique ==
    /\ \A v \in volunteers, w \in volunteers :
        (v.id # w.id /\ v.email # NullStr /\ w.email # NullStr) =>
            LowerStr(v.email) # LowerStr(w.email)
    /\ \A v \in volunteers, fa \in faculty :
        (v.email # NullStr /\ fa.email # NullStr) =>
            LowerStr(v.email) # LowerStr(fa.email)
    /\ \A v \in volunteers, w \in volunteers :
        (v.id # w.id /\ v.college_id # NullStr) => v.college_id # w.college_id

\* the last row of the batch that was resolved to volunteer vID
LastRowOf(m, vID) ==
    LET js == {j \in DOMAIN m.vIDs : m.vIDs[j].vID = vID}
    IN  m.rows[m.vIDs[CHOOSE j \in js : \A k \in js : k <= j].row]

\* an Assignment holds the values of a row in its seven data columns, NULL
\* where the row leaves the column empty
HoldsRow(a, rec) ==
    /\ a.role = (IF rec.role = "" THEN "volunteer" ELSE ToLowerWord(rec.role))
    /\ a.status = (IF rec.status = "" THEN "assigned" ELSE ToLowerWord(rec.status))
    /\ a.shift = (IF rec.shift = <<>> THEN NullStr ELSE rec.shift)
    /\ a.reporting_time = rec.reporting_time
    /\ a.start_time = rec.start_time
    /\ a.end_time = rec.end_time
    /\ (rec.group_no = "" /\ rec.faculty = "") => a.notes = NullStr
    /\ (rec.group_no # "" /\ rec.faculty = "") => a.notes = <<"Group No: ", rec.group_no>>
    /\ (rec.group_no = "" /\ rec.faculty # "") => a.notes = <<"Faculty: ", rec.faculty>>
    /\ (rec.group_no # "" /\ rec.faculty # "") =>
            a.notes = <<"Group No: ", rec.group_no, ", ", "Faculty: ", rec.faculty>>

\* C17: after a committed import, for every row that succeeded, the Assignment
\* of (target event, target committee, resolved volunteer) has role, status,
\* shift, reporting, start and end time and notes equal to the values of the
\* last successful row for that volunteer; nothing the Assignment held before
\* survives, also in the fields the row leaves empty
C17_LastRowOverwrites ==
    [][(ImportAnswers /\ req'[1].status = StatusOK) =>
        \A j \in DOMAIN imp[1].vIDs :
            LET vID == imp[1].vIDs[j].vID
                rows == ByKey(assignments', imp[1].ev, imp[1].com, vID)
            IN  /\ Cardinality(rows) = 1
                /\ \A a \in rows : HoldsRow(a, LastRowOf(imp[1], vID))]_vars

\* an import about to commit has overwritten a stored shift with a row that
\* leaves the shift empty
C17_EmptyFieldOverStoredValue ==
    /\ req[1].pc = "bu_rows"
    /\ imp[1].line > Len(imp[1].rows)
    /\ ~imp[1].aborted
    /\ \E a \in assignments, w \in imp[1].wasg :
        /\ a.id = w.id
        /\ a.shift # NullStr
        /\ a.role = RoleLead
        /\ w.shift = NullStr
        /\ w.role = RoleVolunteer

\* a step of the importer on connection 1: it begins, takes a row or commits
ImporterStep == imp'[1] # imp[1]

\* C18: a roster import changes nothing except inserting new Volunteer rows
\* and inserting or overwriting Assignments of the target (event, committee):
\* no stored Volunteer is modified or removed, no Assignment of another event
\* or committee is touched, an overwritten Assignment keeps its id and its
\* key, a new Assignment row appears only for a key that had none, and no
\* Attendance row is created, deleted or modified
C18_ImportFrame ==
    [][ImporterStep =>
        LET target(a) == a.event_id = imp[1].ev /\ a.committee_id = imp[1].com
        IN  /\ attendance' = attendance
            /\ faculty' = faculty
            /\ volunteers \subseteq volunteers'
            /\ \A v \in volunteers' \ volunteers : v.id \notin {w.id : w \in volunteers}
            /\ {a \in assignments : ~target(a)} = {a \in assignments' : ~target(a)}
            /\ \A a \in assignments :
                \E b \in assignments' :
                    /\ b.id = a.id
                    /\ b.event_id = a.event_id
                    /\ b.committee_id = a.committee_id
                    /\ b.volunteer_id = a.volunteer_id
            /\ \A b \in assignments' :
                b.id \notin AssignmentIds =>
                    /\ target(b)
                    /\ ByKey(assignments, b.event_id, b.committee_id, b.volunteer_id) = {}]_vars

\* an import about to commit has overwritten an Assignment that has an
\* Attendance row, while another committee has an Assignment too
C18_OverwritesAttendedAssignment ==
    /\ req[1].pc = "bu_rows"
    /\ imp[1].line > Len(imp[1].rows)
    /\ ~imp[1].aborted
    /\ \E a \in assignments, w \in imp[1].wasg, r \in attendance :
        a.id = w.id /\ r.assignment_id = a.id
    /\ \E a \in assignments : a.committee_id # imp[1].com

\* two rows of a table have the same (event, committee, volunteer)
SameKey(a, b) ==
    /\ a.event_id = b.event_id
    /\ a.committee_id = b.committee_id
    /\ a.volunteer_id = b.volunteer_id

\* the step in which CreateAssignment answers 201 on connection p
Creates(p) ==
    /\ req[p].pc = "idle"
    /\ req'[p].op = "CreateAssignment"
    /\ req'[p].status = StatusCreated

\* C19: in every reachable state there is at most one Assignment for any
\* (event, committee, volunteer), under any sequence or interleaving of admin
\* assignment creations and roster imports; creating an Assignment for a
\* triple that has one overwrites it in place and adds no second row
C19_OneAssignmentPerKey ==
    /\ [](\A a \in assignments, b \in assignments :
            (SameKey(a, b) \/ a.id = b.id) => a = b)
    /\ [][\A p \in Procs : Creates(p) =>
            /\ \A a \in assignments : \E b \in assignments' : b.id = a.id /\ SameKey(a, b)
            /\ \A b \in assignments' :
                b.id \notin AssignmentIds =>
                    /\ b.id = req'[p].id
                    /\ \A a \in assignments : ~SameKey(a, b)
            /\ \E b \in assignments' : b.id = req'[p].id]_vars

\* an Assignment created on one connection while the import on the other was
\* open has since been overwritten, with another shift, by a row of that
\* import, which has not committed yet
C19_CreatedThenOverwrittenByImport ==
    \E p \in Procs, q \in Procs :
        /\ p # q
        /\ req[p].pc = "done"
        /\ req[p].op = "CreateAssignment"
        /\ req[p].status = StatusCreated
        /\ req[q].pc = "bu_rows"
        /\ \E a \in assignments, w \in imp[q].wasg :
            /\ a.id = req[p].id
            /\ w.id = a.id
            /\ SameKey(a, w)
            /\ a.shift # w.shift

\* C20: in every reachable state every Attendance row refers to an existing
\* Assignment and every Assignment to an existing Volunteer: deleting an
\* Assignment takes its Attendance with it, deleting a Volunteer takes the
\* volunteer's Assignments and their Attendance, and a check-in interleaved
\* with the deletion of its Assignment leaves no Attendance without one
C20_ReferentialIntegrity ==
    /\ \A r \in attendance : r.assignment_id \in AssignmentIds
    /\ \A a \in assignments : a.volunteer_id \in {v.id : v \in volunteers}

\* a check-in has passed both lookups and is about to INSERT, and meanwhile
\* the other connection has deleted the volunteer, whose Assignment and
\* earlier Attendance went with it
C20_CheckInAfterCascade ==
    \E p \in Procs, q \in Procs :
        /\ req[p].pc = "ci_insert"
        /\ req[p].aid \notin AssignmentIds
        /\ req[q].pc = "done"
        /\ req[q].op = "DeleteVolunteer"
        /\ req[q].status = StatusNoContent
        /\ nextAttId > 1
        /\ attendance = {}

\* ------------------------------------------------------- the projections
\* the reference day of an answered projection: the day its query names, else
\* the day of the instant it was asked
ReferenceDay(r) == IF r.q.date \in 0..(MaxTime \div TicksPerDay) THEN r.q.date
                   ELSE r.ts \div TicksPerDay

\* connection 1 answers a request to the projection `op` in this step
Projects(op) ==
    /\ req[1].pc = "idle"
    /\ req'[1].op = op
    /\ req'[1].status = StatusOK

\* the Attendance rows of assignment aid whose check-in is on day D
AttendanceOn(aid, D) ==
    {a \in attendance : a.assignment_id = aid /\ a.check_in_time \div TicksPerDay = D}

OpenAttendanceOn(aid, D) == {a \in AttendanceOn(aid, D) : a.check_out_time = NULL}

\* the rows of an answer, as a set
RowsOf(r) == {r.rows[i] : i \in 1..Len(r.rows)}

\* C21: every Assignment that assignments-status returns for reference day D
\* has is_checked_in true exactly when one of its Attendance rows has its
\* check-in on D and no check-out, and then active_attendance_id is the id of
\* such a row; otherwise (its rows of D all closed, or none on D) it has
\* is_checked_in false and no active_attendance_id
C21_StatusOfDay ==
    [][Projects("ListAssignmentsWithCheckinStatus") =>
        \A row \in RowsOf(req'[1]) :
            LET open == OpenAttendanceOn(row.id, ReferenceDay(req'[1]))
            IN  /\ row.is_checked_in <=> open # {}
                /\ row.is_checked_in => row.active_attendance_id \in {a.id : a \in open}
                /\ ~row.is_checked_in => row.active_attendance_id = NULL]_vars

\* assignments-status has answered for a day on which one assignment is open
\* (is_checked_in) and another has only a closed Attendance (not checked in)
C21_OpenAndClosedReported ==
    /\ req[1].op = "ListAssignmentsWithCheckinStatus"
    /\ req[1].pc = "done"
    /\ \E r1, r2 \in RowsOf(req[1]) :
        /\ r1.is_checked_in /\ r1.active_attendance_id \in AttendanceIds
        /\ ~r2.is_checked_in
        /\ AttendanceOn(r2.id, ReferenceDay(req[1])) # {}
        /\ OpenAttendanceOn(r2.id, ReferenceDay(req[1])) = {}

\* the query of an answer names no limit and no offset: its page is the whole result
WholeResult(r) == r.q.limit = NULL /\ r.q.offset = NULL

\* assignment va passes the event, committee and shift filters of query q
PassesFilters(va, q) ==
    /\ q.ev > 0 => va.event_id = q.ev
    /\ q.com > 0 => va.committee_id = q.com
    /\ q.shift # <<>> => ShiftILike(va.shift, q.shift)

\* the assignments passing q's filters that start on day D and have no
\* Attendance, open or closed, with a check-in on D
LackingCheckIn(q, D) ==
    {va.id : va \in {a \in assignments :
        /\ PassesFilters(a, q)
        /\ a.start_time # NULL /\ a.start_time \div TicksPerDay = D
        /\ AttendanceOn(a.id, D) = {}}}

\* C22: shifts-without-checkin for day D returns exactly the assignments that
\* pass the filters, start on D and have no Attendance, open or closed, with a
\* check-in on D (a page of them when the query limits the result): none with
\* a closed Attendance on D or without start time, and every one whose
\* Attendance rows are all on other days
C22_ShiftsWithoutCheckIn ==
    [][Projects("ListShiftsWithoutCheckIn") =>
        LET listed == {row.id : row \in RowsOf(req'[1])}
            lacking == LackingCheckIn(req'[1].q, ReferenceDay(req'[1]))
        IN  /\ listed \subseteq lacking
            /\ WholeResult(req'[1]) => listed = lacking]_vars

\* shifts-without-checkin has answered for a day D listing an assignment that
\* has an Attendance on another day only, and leaving out one that starts on D
\* and has a closed Attendance on D
C22_OtherDayListedClosedLeftOut ==
    /\ req[1].op = "ListShiftsWithoutCheckIn"
    /\ req[1].pc = "done"
    /\ \E row \in RowsOf(req[1]) :
        \E a \in attendance : a.assignment_id = row.id
    /\ \E va \in assignments :
        /\ PassesFilters(va, req[1].q)
        /\ va.start_time # NULL
        /\ va.start_time \div TicksPerDay = ReferenceDay(req[1])
        /\ \E a \in AttendanceOn(va.id, ReferenceDay(req[1])) : a.check_out_time # NULL
        /\ va.id \notin {row.id : row \in RowsOf(req[1])}

\* the assignment of an Attendance row
AssignmentOf(a) == CHOOSE va \in assignments : va.id = a.assignment_id

\* the open Attendance rows whose assignment passes the filters of q
OpenPassing(q) ==
    {a.id : a \in {x \in attendance : /\ x.check_out_time = NULL
                                      /\ PassesFilters(AssignmentOf(x), q)}}

\* C23: active-in-shift (filters event, committee, shift) and
\* active-in-committee (filters event, committee) return exactly the
\* Attendance rows without check-out whose assignment passes the filters,
\* whatever day their check-in was on, and never a row with a check-out
C23_ActiveCheckIns ==
    [][/\ Projects("ListActiveCheckinsInShift") /\ WholeResult(req'[1])
          => {row.id : row \in RowsOf(req'[1])} = OpenPassing(req'[1].q)
       /\ Projects("ListActiveCheckinsInCommittee") /\ WholeResult(req'[1])
          => {row.id : row \in RowsOf(req'[1])}
                = OpenPassing([req'[1].q EXCEPT !.shift = <<>>])
       /\ Projects("ListActiveCheckinsInShift") \/ Projects("ListActiveCheckinsInCommittee")
          => \A row \in RowsOf(req'[1]) : row.check_out_time = NULL]_vars

\* event, committee, scheduled start (none: last) and volunteer name of assignment aid
KeyOfAssignment(aid) ==
    LET va == CHOOSE a \in assignments : a.id = aid
        v == CHOOSE x \in volunteers : x.id = va.volunteer_id
    IN  <<va.event_id, va.committee_id,
          IF va.start_time = NULL THEN MaxTime + 1 ELSE va.start_time, NameRank(v.name)>>

\* the assignments of the rows of an answer, in the order of the rows
AssignmentsListed(r) ==
    [i \in 1..Len(r.rows) |->
        IF r.op \in {"ListActiveCheckinsInShift", "ListActiveCheckinsInCommittee"}
        THEN r.rows[i].assignment_id ELSE r.rows[i].id]

\* C24: each projection (assignments lacking a check-in, active check-ins,
\* assignment status) returns its rows ordered by event, then committee, then
\* scheduled start time, then volunteer name
C24_OrderedByAssignment ==
    [][\/ Projects("ListShiftsWithoutCheckIn")
       \/ Projects("ListActiveCheckinsInShift")
       \/ Projects("ListActiveCheckinsInCommittee")
       \/ Projects("ListAssignmentsWithCheckinStatus")
       => LET ids == AssignmentsListed(req'[1])
          IN  \A i, j \in 1..Len(ids) :
                i < j => ~LexLess(KeyOfAssignment(ids[j]), KeyOfAssignment(ids[i]))]_vars

\* ------------------------------------------------------------ role checks
\* the request connection p took in this step was refused: 403 and no change
RefusedBeforeHandler(p) ==
    /\ req'[p].pc = "done"
    /\ req'[p].status = StatusForbidden
    /\ UNCHANGED <<store, imp>>

\* C25: the roster import, volunteer and assignment management run only for
\* admin; bulk closeout and the projections only for faculty or admin;
\* check-in and check-out only for volunteer or admin: a request whose role
\* is not in the allowed set is answered 403 before the handler runs and
\* changes no state
C25_RoleGates ==
    [][\A p \in Procs, role \in UserRoles :
        /\ AdminRoute(p, role) /\ role # UserRoleAdmin => RefusedBeforeHandler(p)
        /\ FacultyRoute(p, role) /\ role \notin {UserRoleFaculty, UserRoleAdmin}
            => RefusedBeforeHandler(p)
        /\ VolunteerRoute(p, role) /\ role \notin {UserRoleVolunteer, UserRoleAdmin}
            => RefusedBeforeHandler(p)]_vars

\* a caller without the admin role has asked to delete an assignment that
\* exists and has an open Attendance, and was refused
C25_DeleteRefused ==
    /\ req[1].op = "DeleteAssignment"
    /\ req[1].status = StatusForbidden
    /\ \E a \in attendance : a.check_out_time = NULL /\ a.assignment_id \in AssignmentIds

\* ------------------------------------------------- concurrent check-outs
\* connection p, whose lookup found Attendance req[p].att open, answers in this step
CheckOutAnswers(p) ==
    /\ req[p].op = "CheckOut"
    /\ req[p].pc = "co_update"
    /\ req'[p].pc = "done"

\* C26: of two check-outs of one open Attendance that interleave their lookup
\* and update steps, exactly one succeeds (204) and its timestamp is the one
\* stored; the other finds the row closed and answers 409, never 404
C26_OneCheckOutWins ==
    [][\A p \in Procs : CheckOutAnswers(p) =>
        LET row == {r \in attendance : r.id = req[p].att}
        IN  /\ (\E r \in row : r.check_out_time = NULL) =>
                /\ req'[p].status = StatusNoContent
                /\ \E r \in attendance' : r.id = req[p].att /\ r.check_out_time = req[p].ts
            /\ (\E r \in row : r.check_out_time # NULL) =>
                /\ req'[p].status = StatusConflict
                /\ attendance' = attendance]_vars

\* ------------------------------------------------------ the bulk closeout
\* the Attendance rows that this step closes
ClosedInStep ==
    {r \in attendance : /\ r.check_out_time = NULL
                        /\ \E r2 \in attendance' : r2.id = r.id /\ r2.check_out_time # NULL}

\* connection p runs one UPDATE of its closeout sweep in this step
SweepStep(p) ==
    /\ req[p].op = "CheckoutShift"
    /\ req[p].pc = "cs_update"
    /\ req'[p] # req[p]

\* C27: a bulk closeout for day D (today, the day of its `now`, when the
\* request names no date) closes only the open Attendance rows of the shift
\* whose check-in is on D; an open row of the shift with a check-in on
\* another day stays open
C27_CloseoutOnlyOfDay ==
    [][\A p \in Procs : SweepStep(p) =>
        \A r \in ClosedInStep :
            r.check_in_time \div TicksPerDay = req[p].ts \div TicksPerDay]_vars

\* C28: every closed Attendance is a well-formed interval: in every reachable
\* state the check-out of a row that has one is not earlier than its check-in,
\* whatever timestamps the check-in and check-out requests carry and whenever
\* the bulk closeout runs
C28_ClosedIsInterval ==
    \A r \in attendance :
        r.check_out_time # NULL => r.check_out_time >= r.check_in_time

\* ----------------------------------------------------- refresh rotation
\* connection p holds the answer 200 to a refresh that presented token t
Refreshed(p, t) ==
    /\ req[p].op = "refresh"
    /\ req[p].pc = "done"
    /\ req[p].status = StatusOK
    /\ req[p].token = t

\* C29: a refresh token is accepted at most once: of the refresh requests
\* presenting one token T, concurrent or not, at most one is issued new
\* tokens; once a refresh with T has succeeded T is revoked; and a refresh
\* whose token is revoked or expired at its lookup is never issued tokens
C29_RefreshRotates ==
    /\ [](\A p, q \in Procs, t \in 1..MaxSessions :
            Refreshed(p, t) /\ Refreshed(q, t) => p = q)
    /\ [](\A p \in Procs, t \in 1..MaxSessions :
            Refreshed(p, t) =>
                \A x \in sessions :
                    x.refresh_token_hash = sha256b64(t) => x.revoked_at # NULL)
    /\ [][\A p \in Procs :
            req[p].pc = "idle" /\ req'[p].pc = "rf_revoke" =>
                \E x \in sessions :
                    /\ x.refresh_token_hash = sha256b64(req'[p].token)
                    /\ x.revoked_at = NULL
                    /\ req'[p].ts <= x.expires_at]_vars

\* ---------------------------------------------- the volunteer's announcements
\* announcement a is for all of an event, or for a committee, that volunteer v
\* has an assignment in
RelevantTo(a, v) ==
    \E va \in assignments :
        /\ va.volunteer_id = v
        /\ \/ a.committee_id = NULL /\ a.event_id = va.event_id
           \/ a.committee_id = va.committee_id

====
